---- MODULE Spec2Model ----
(***************************************************************************)
(* Model of the texture-generation service (TextureCache and               *)
(* AITextureGenerator, src/src/services/textureGenerator.ts) and of the    *)
(* landmark validation gate (src/src/utils/coordinates.ts and the          *)
(* components that build geometry from landmarks).                         *)
(***************************************************************************)
EXTENDS Integers, Sequences, FiniteSets, TLC

(***************************************************************************)
(* Program constants                                                       *)
(***************************************************************************)
\* TextureCache.maxSize
maxSize == 20

\* TextureCache.ttl = 24 * 60 * 60 * 1000 ms
ttl == 86400000

\* default of AIModelConfig.retries
DefaultRetries == 3

\* unit of the linear backoff: setTimeout(resolve, 1000 * (attempt + 1))
BackoffUnit == 1000

\* the compositor and the 3D mask loader need the full 468-point detection
LandmarkCount == 468

\* PromptProcessor.minLength and maxLength, of the trimmed prompt
minLength == 5
maxLength == 500

(***************************************************************************)
(* Bounds of the exploration                                               *)
(***************************************************************************)
\* cache-only specification: number of set calls; number of clock advances,
\* clears and set calls on a key that is already present
MaxSets == 22
MaxExtras == 1

\* generator specification: number of requests issued and of clock advances
MaxCalls == 3
MaxGenTicks == 2

\* landmark specification: a coordinate n stands for the number n / Grid
Grid == 2
MaxExcess == 2

\* function specification: the largest extent of a bounding box, and the
\* largest number of landmarks of a bounding box
MaxSize == 10
MaxLandmarks == 3

\* function specification: the largest width and height of a photo and of
\* a category mask
MaxPhoto == 4
MaxMask == 2

\* compositor specification: number of calls of draw
MaxDraws == 3

\* hook specification: number of calls of generateTextures and
\* generateTexturesStreaming, number of calls of setPreset, and number of
\* chunks of one stream
MaxHookCalls == 2
MaxPresets == 3
MaxChunks == 1

(***************************************************************************)
(* Values                                                                  *)
(***************************************************************************)
\* JavaScript undefined (an optional request field that is not given)
Undefined == "<undefined>"

\* JavaScript null (TextureCache.get on a miss)
Null == "<null>"

\* no key
NoKey == "<none>"

\* template-literal conversion of a string-or-undefined value
ToStr(x) == IF x = Undefined THEN "undefined" ELSE x

Prompts == <<"gold", "wood", "lace", "jade", "silk", "bone">>
Styles == <<"realistic", Undefined>>
Qualities == <<"high", Undefined>>

\* the requests the environment issues, in a fixed enumeration
NumRequests == Len(Prompts) * Len(Styles) * Len(Qualities)

ReqAt(i) ==
  [prompt  |-> Prompts[((i - 1) \div (Len(Styles) * Len(Qualities))) + 1],
   style   |-> Styles[(((i - 1) \div Len(Qualities)) % Len(Styles)) + 1],
   quality |-> Qualities[((i - 1) % Len(Qualities)) + 1]]

Requests == {ReqAt(i) : i \in 1..NumRequests}

\* the decoded responses of the remote model
Responses == {"texA", "texB"}

(***************************************************************************)
(* TextureCache                                                            *)
(* The Map is a sequence of entries in Map iteration order (the order of   *)
(* first insertion since the key was last absent).                         *)
(***************************************************************************)
generateKey(request) ==
  request.prompt \o "_" \o ToStr(request.style) \o "_" \o ToStr(request.quality)

MapKeys(m) == {m[i].key : i \in 1..Len(m)}

MapHas(m, k) == k \in MapKeys(m)

MapIndex(m, k) == CHOOSE i \in 1..Len(m) : m[i].key = k

MapGet(m, k) == m[MapIndex(m, k)]

\* Map.prototype.delete
MapDelete(m, k) ==
  IF MapHas(m, k)
  THEN LET i == MapIndex(m, k)
       IN  [j \in 1..(Len(m) - 1) |-> IF j < i THEN m[j] ELSE m[j + 1]]
  ELSE m

\* Map.prototype.set: an existing key keeps its position, a new key is appended
MapSet(m, k, d, t) ==
  LET e == [key |-> k, data |-> d, timestamp |-> t]
  IN  IF MapHas(m, k)
      THEN [m EXCEPT ![MapIndex(m, k)] = e]
      ELSE Append(m, e)

\* Array.from(entries).sort((a, b) => a[1].timestamp - b[1].timestamp)[0][0]:
\* the sort is stable, so among equal timestamps the first in Map order wins
OldestKeyNewest(m) ==
  LET i == CHOOSE i \in 1..Len(m) :
             \A j \in 1..Len(m) :
               \/ m[i].timestamp > m[j].timestamp
               \/ (m[i].timestamp = m[j].timestamp /\ i >= j)
  IN  m[i].key

OldestKey(m) ==
  LET i == CHOOSE i \in 1..Len(m) :
             \A j \in 1..Len(m) :
               \/ m[i].timestamp < m[j].timestamp
               \/ (m[i].timestamp = m[j].timestamp /\ i <= j)
  IN  m[i].key

\* TextureCache.set
TextureCacheSet(m, k, d, t) ==
  LET m1 == IF Len(m) >= maxSize THEN MapDelete(m, OldestKey(m)) ELSE m
  IN  MapSet(m1, k, d, t)

\* TextureCache.get: the result and the cache after the call
TextureCacheGetNoExpiry(m, k, t) ==
  IF ~MapHas(m, k) THEN [result |-> Null, cache |-> m]
  ELSE [result |-> MapGet(m, k).data, cache |-> m]

TextureCacheGet(m, k, t) ==
  IF ~MapHas(m, k) THEN [result |-> Null, cache |-> m]
  ELSE IF t - MapGet(m, k).timestamp > ttl
       THEN [result |-> Null, cache |-> MapDelete(m, k)]
       ELSE [result |-> MapGet(m, k).data, cache |-> m]

\* TextureCache.clear
TextureCacheClear(m) == << >>

(***************************************************************************)
(* Landmarks                                                               *)
(* A coordinate is a JavaScript value: a finite number n / Grid, NaN,      *)
(* +Infinity, -Infinity, or undefined (a field that is missing).           *)
(***************************************************************************)
Num(n) == [tag |-> "num", v |-> n]
NaN == [tag |-> "nan", v |-> 0]
PosInf == [tag |-> "inf", v |-> 0]
NegInf == [tag |-> "ninf", v |-> 0]
Undef == [tag |-> "undefined", v |-> 0]

\* typeof c === 'number'
IsNumber(c) == c.tag \in {"num", "nan", "inf", "ninf"}

\* isNaN(c)
isNaN(c) == c.tag \in {"nan", "undefined"}

\* c >= b and c <= b for an integer b; every comparison with NaN is false
GreaterEq(c, b) == (c.tag = "num" /\ c.v >= b * Grid) \/ c.tag = "inf"
LessEq(c, b) == (c.tag = "num" /\ c.v <= b * Grid) \/ c.tag = "ninf"

\* landmarks[idx] of a JavaScript array (0-based)
At(lms, idx) == lms[idx + 1]

\* the callback of landmarks.every in validateLandmarks
ValidLandmarkNoZ(landmark) ==
  /\ IsNumber(landmark.x) /\ ~isNaN(landmark.x)
  /\ GreaterEq(landmark.x, 0) /\ LessEq(landmark.x, 1)
  /\ IsNumber(landmark.y) /\ ~isNaN(landmark.y)
  /\ GreaterEq(landmark.y, 0) /\ LessEq(landmark.y, 1)
  /\ IsNumber(landmark.z) /\ ~isNaN(landmark.z)
  /\ LessEq(landmark.z, 1)

ValidLandmark(landmark) ==
  /\ IsNumber(landmark.x) /\ ~isNaN(landmark.x)
  /\ GreaterEq(landmark.x, 0) /\ LessEq(landmark.x, 1)
  /\ IsNumber(landmark.y) /\ ~isNaN(landmark.y)
  /\ GreaterEq(landmark.y, 0) /\ LessEq(landmark.y, 1)
  /\ IsNumber(landmark.z) /\ ~isNaN(landmark.z)
  /\ GreaterEq(landmark.z, -1) /\ LessEq(landmark.z, 1)

validateLandmarks(lms) ==
  IF Len(lms) = 0 THEN FALSE
  ELSE \A i \in 1..Len(lms) : ValidLandmark(lms[i])

\* MediaPipe FaceMesh triangulation indices
FACE_MESH_TRIANGLES == <<
  <<61, 146, 91>>, <<91, 181, 84>>, <<84, 17, 314>>, <<314, 405, 321>>,
  <<321, 375, 291>>, <<291, 61, 146>>, <<78, 95, 88>>, <<88, 178, 87>>,
  <<87, 14, 317>>, <<317, 402, 318>>, <<318, 324, 308>>, <<308, 78, 95>>,
  <<78, 191, 80>>, <<80, 81, 82>>, <<82, 13, 312>>, <<312, 311, 310>>,
  <<310, 415, 308>>, <<308, 324, 318>>, <<318, 402, 317>>, <<317, 14, 87>>,
  <<87, 178, 88>>, <<88, 95, 78>>, <<80, 191, 78>>, <<82, 81, 80>>,
  <<312, 13, 82>>, <<310, 311, 312>>, <<415, 310, 308>>, <<362, 382, 381>>,
  <<381, 380, 374>>, <<374, 373, 390>>, <<390, 249, 263>>,
  <<263, 466, 388>>, <<388, 387, 386>>, <<386, 385, 384>>,
  <<384, 398, 362>>, <<398, 384, 385>>, <<385, 386, 387>>,
  <<387, 388, 466>>, <<466, 263, 249>>, <<249, 390, 373>>,
  <<373, 374, 380>>, <<380, 381, 382>>, <<382, 362, 398>>, <<33, 7, 163>>,
  <<163, 144, 145>>, <<145, 153, 154>>, <<154, 155, 133>>,
  <<133, 33, 246>>, <<246, 161, 160>>, <<160, 159, 158>>,
  <<158, 157, 173>>, <<173, 157, 158>>, <<158, 159, 160>>,
  <<160, 161, 246>>, <<246, 33, 133>>, <<133, 155, 154>>,
  <<154, 153, 145>>, <<145, 144, 163>>, <<163, 7, 33>>, <<276, 283, 282>>,
  <<282, 295, 285>>, <<285, 295, 282>>, <<282, 283, 276>>,
  <<283, 276, 300>>, <<300, 293, 334>>, <<334, 296, 336>>,
  <<336, 285, 295>>, <<295, 282, 285>>, <<285, 336, 334>>,
  <<334, 293, 300>>, <<300, 276, 283>>, <<46, 53, 52>>, <<52, 65, 55>>,
  <<55, 65, 52>>, <<52, 53, 46>>, <<53, 46, 70>>, <<70, 63, 105>>,
  <<105, 66, 107>>, <<107, 55, 65>>, <<65, 52, 55>>, <<55, 107, 105>>,
  <<105, 63, 70>>, <<70, 46, 53>>, <<1, 2, 98>>, <<98, 97, 2>>,
  <<2, 326, 327>>, <<327, 294, 326>>, <<168, 6, 197>>, <<197, 195, 5>>,
  <<5, 4, 1>>, <<4, 5, 195>>, <<195, 197, 6>>, <<6, 168, 8>>,
  <<8, 9, 168>>, <<9, 8, 42>>, <<42, 41, 38>>, <<38, 37, 40>>,
  <<40, 39, 37>>, <<37, 38, 41>>, <<41, 42, 8>>, <<8, 168, 9>>,
  <<168, 197, 195>>, <<195, 5, 4>>, <<4, 1, 2>>, <<2, 97, 98>>,
  <<98, 2, 326>>, <<326, 294, 327>>, <<327, 326, 294>>, <<10, 338, 297>>,
  <<297, 338, 337>>, <<337, 299, 333>>, <<333, 299, 298>>,
  <<298, 337, 338>>, <<338, 10, 297>>, <<109, 10, 338>>, <<338, 337, 299>>,
  <<299, 333, 298>>, <<298, 338, 337>>, <<337, 338, 10>>, <<10, 109, 338>>,
  <<67, 109, 10>>, <<10, 338, 337>>, <<337, 299, 333>>, <<333, 298, 337>>,
  <<337, 338, 298>>, <<298, 338, 109>>, <<109, 67, 10>>, <<127, 234, 93>>,
  <<93, 234, 137>>, <<137, 234, 177>>, <<177, 234, 215>>,
  <<215, 234, 177>>, <<177, 215, 138>>, <<138, 215, 214>>,
  <<214, 215, 177>>, <<177, 138, 214>>, <<214, 138, 135>>,
  <<135, 138, 177>>, <<177, 137, 135>>, <<135, 137, 234>>,
  <<234, 127, 93>>, <<93, 137, 234>>, <<132, 58, 172>>, <<172, 136, 150>>,
  <<150, 149, 176>>, <<176, 148, 152>>, <<152, 377, 400>>,
  <<400, 378, 379>>, <<379, 365, 397>>, <<397, 288, 361>>,
  <<361, 323, 454>>, <<454, 356, 389>>, <<389, 200, 421>>,
  <<421, 428, 262>>, <<262, 369, 396>>, <<396, 175, 171>>, <<171, 32, 132>>
>>

\* getFaceTriangles: the table flattened
getFaceTriangles ==
  [i \in 1..(3 * Len(FACE_MESH_TRIANGLES)) |->
     FACE_MESH_TRIANGLES[((i - 1) \div 3) + 1][((i - 1) % 3) + 1]]

validateTrianglesNoUpperBound(triangles, landmarkCount) ==
  \A i \in 1..Len(triangles) : triangles[i] >= 0

validateTriangles(triangles, landmarkCount) ==
  \A i \in 1..Len(triangles) :
    triangles[i] >= 0 /\ triangles[i] < landmarkCount

\* the mask definition and the hole indices of the mask builders
FULL_FACE ==
  <<10, 338, 297, 332, 284, 251, 389, 356, 454, 323, 361, 288, 397, 365, 379,
    378, 400, 377, 152, 148, 176, 149, 150, 136, 172, 58, 132, 93, 234, 127,
    162, 21, 54, 103, 67, 109>>

LEFT_EYE ==
  <<33, 246, 161, 160, 159, 158, 157, 173, 133, 155, 154, 153, 145, 144, 163,
    7>>

RIGHT_EYE ==
  <<362, 398, 384, 385, 386, 387, 388, 466, 263, 249, 390, 373, 374, 380, 381,
    382>>

MOUTH ==
  <<61, 185, 40, 39, 37, 0, 267, 269, 270, 409, 291, 375, 321, 405, 314, 17,
    84, 181, 91, 146>>

MOUTH_PTS == <<78, 13, 308, 14>>

MASK_DEFINITION ==
  [boundaryLandmarks |-> FULL_FACE, cutouts |-> <<LEFT_EYE, RIGHT_EYE, MOUTH>>]

SeqRange(q) == {q[i] : i \in 1..Len(q)}

(***************************************************************************)
(* The components that build geometry from landmarks: what each makes of   *)
(* a landmark array ("built", "empty" when it declines, "threw")           *)
(***************************************************************************)
\* FaceMesh (3D face mesh builder): validation, then the triangle check
FaceMeshNoTriangleCheck(lms) ==
  IF Len(lms) = 0 \/ ~validateLandmarks(lms) THEN "empty" ELSE "built"

FaceMesh(lms) ==
  IF Len(lms) = 0 \/ ~validateLandmarks(lms) THEN "empty"
  ELSE IF ~validateTriangles(getFaceTriangles, Len(lms)) THEN "empty"
  ELSE "built"

\* MaskLoader (3D mask loader): anchors are extracted from a full, valid array
MaskLoader(lms) ==
  IF Len(lms) >= LandmarkCount /\ validateLandmarks(lms) THEN "built"
  ELSE "empty"

\* MaskCompositor.draw: returns early without a full array, else draws the
\* photo and builds the mask path from the landmarks
MaskCompositorDraw(lms) ==
  IF Len(lms) < LandmarkCount THEN "empty" ELSE "built"

\* generateInpaintMask: reads landmarks[idx].x for every index of the mask
\* definition; a missing landmark is a TypeError
generateInpaintMask(lms, maskDefinition) ==
  LET used == SeqRange(maskDefinition.boundaryLandmarks) \cup
              UNION {SeqRange(maskDefinition.cutouts[i]) :
                       i \in 1..Len(maskDefinition.cutouts)}
  IN  IF \A idx \in used : idx < Len(lms) THEN "built" ELSE "threw"

\* generateMaskBuffer (backend SVG mask): a missing landmark becomes '0,0',
\* the SVG is always produced
generateMaskBuffer(lms) == "built"

(***************************************************************************)
(* Pixel arithmetic of the mask builders.  A pixel-space number n stands   *)
(* for n / (20 * Grid) px, so that the halves, quarters and twentieths     *)
(* (0.25, 0.35, 0.45, 0.5, 0.65) the builders take are whole numbers.      *)
(***************************************************************************)
\* the number of n pixels
Pixels(n) == Num(n * 20 * Grid)

\* c * k for a landmark coordinate c and a positive integer k
Times(c, k) ==
  CASE c.tag = "num" -> Num(c.v * k)
    [] c.tag \in {"inf", "ninf"} -> c
    [] OTHER -> NaN

\* landmark coordinate times image width or height, in pixel-space units
Px(c, W) == Times(c, 20 * W)

\* a + b
Plus(a, b) ==
  CASE isNaN(a) \/ isNaN(b) -> NaN
    [] a.tag = "num" /\ b.tag = "num" -> Num(a.v + b.v)
    [] a.tag = "num" -> b
    [] b.tag = "num" -> a
    [] a.tag = b.tag -> a
    [] OTHER -> NaN

\* -a
Neg(a) ==
  CASE a.tag = "num" -> Num(0 - a.v)
    [] a.tag = "inf" -> NegInf
    [] a.tag = "ninf" -> PosInf
    [] OTHER -> NaN

\* a - b
Minus(a, b) == Plus(a, Neg(b))

\* a * (p / q) for positive integers p, q
Frac(a, p, q) ==
  CASE a.tag = "num" -> Num((a.v * p) \div q)
    [] a.tag \in {"inf", "ninf"} -> a
    [] OTHER -> NaN

\* a || 0: NaN and 0 are falsy
OrZero(a) == IF isNaN(a) \/ a = Num(0) THEN Num(0) ELSE a

\* a < b, false when either is NaN
Less(a, b) ==
  /\ ~isNaN(a) /\ ~isNaN(b)
  /\ \/ a.tag = "num" /\ b.tag = "num" /\ a.v < b.v
     \/ a.tag = "ninf" /\ b.tag # "ninf"
     \/ b.tag = "inf" /\ a.tag # "inf"

\* Math.max(a, b): NaN when either is NaN
MathMax(a, b) ==
  IF isNaN(a) \/ isNaN(b) THEN NaN ELSE IF Less(a, b) THEN b ELSE a

\* [...indices].reverse()
Reverse(q) == [i \in 1..Len(q) |-> q[Len(q) + 1 - i]]

(***************************************************************************)
(* The mask builders.  A Path2D, and the drawing calls on a canvas         *)
(* context, are the sequence of the calls made: <<"moveTo", x, y>>,        *)
(* <<"lineTo", x, y>>, <<"arcTo", x1, y1, x2, y2, r>>, <<"closePath">>,    *)
(* <<"ellipse", cx, cy, rx, ry>>, ...                                      *)
(***************************************************************************)
\* MaskCompositor.tsx: the landmarks the outline is derived from
LM == [TOP_HEAD |-> 10, CHIN |-> 152, LEFT_EAR |-> 234, RIGHT_EAR |-> 454]

px(lm, i, W) == Px(At(lm, i).x, W)
py(lm, i, H) == Px(At(lm, i).y, H)

\* moveTo the first point, lineTo the others, closePath
Polygon(lm, indices, W, H) ==
  [i \in 1..(Len(indices) + 1) |->
     IF i = 1 THEN <<"moveTo", px(lm, indices[1], W), py(lm, indices[1], H)>>
     ELSE IF i <= Len(indices)
       THEN <<"lineTo", px(lm, indices[i], W), py(lm, indices[i], H)>>
       ELSE <<"closePath">>]

\* addHoleCCW: the hole's points in reversed order
addHoleCCWNoReverse(indices, lm, W, H) == Polygon(lm, indices, W, H)

addHoleCCW(indices, lm, W, H) == Polygon(lm, Reverse(indices), W, H)

\* buildMaskPath (MaskCompositor.tsx): a rounded rectangle derived from the
\* top of the head, the chin and the ears, the two eye holes and the mouth
\* ellipse
buildMaskPath(lm, W, H) ==
  LET topY == py(lm, LM.TOP_HEAD, H)
      chinY == py(lm, LM.CHIN, H)
      leftX == px(lm, LM.LEFT_EAR, W)
      rightX == px(lm, LM.RIGHT_EAR, W)
      centerX == Frac(Plus(leftX, rightX), 1, 2)
      faceW == Minus(rightX, leftX)
      faceH == Minus(chinY, topY)
      topMask == topY
      bottomMask == Plus(chinY, Frac(faceH, 1, 2))
      maskW == Frac(faceW, 13, 20)
      left == Minus(centerX, maskW)
      right == Plus(centerX, maskW)
      cornerR == Frac(faceW, 1, 4)
      mLeft == px(lm, MOUTH_PTS[1], W)
      mTop == py(lm, MOUTH_PTS[2], H)
      mRight == px(lm, MOUTH_PTS[3], W)
      mBottom == py(lm, MOUTH_PTS[4], H)
      mCX == Frac(Plus(mLeft, mRight), 1, 2)
      mCY == Frac(Plus(mTop, mBottom), 1, 2)
      mRX == Frac(Minus(mRight, mLeft), 7, 20)
      mRY == Frac(Minus(mBottom, mTop), 9, 20)
  IN  << <<"moveTo", Plus(left, cornerR), topMask>>,
         <<"lineTo", Minus(right, cornerR), topMask>>,
         <<"arcTo", right, topMask, right, Plus(topMask, cornerR), cornerR>>,
         <<"lineTo", right, Minus(bottomMask, cornerR)>>,
         <<"arcTo", right, bottomMask, Minus(right, cornerR), bottomMask,
           cornerR>>,
         <<"lineTo", Plus(left, cornerR), bottomMask>>,
         <<"arcTo", left, bottomMask, left, Minus(bottomMask, cornerR),
           cornerR>>,
         <<"lineTo", left, Plus(topMask, cornerR)>>,
         <<"arcTo", left, topMask, Plus(left, cornerR), topMask, cornerR>>,
         <<"closePath">> >>
      \o addHoleCCW(LEFT_EYE, lm, W, H)
      \o addHoleCCW(RIGHT_EYE, lm, W, H)
      \o << <<"ellipse", mCX, mCY, mRX, mRY>> >>

\* generateInpaintMask (coordinates.ts): the calls on the 2D context that
\* draw the white boundary polygon and the black cutout polygons
generateInpaintMaskCalls(landmarks_, maskDefinition, imageWidth, imageHeight) ==
  LET Cut(i) ==
        << <<"fillStyle", "#000000">>, <<"beginPath">> >>
        \o Polygon(landmarks_, maskDefinition.cutouts[i], imageWidth,
                   imageHeight)
        \o << <<"fill">> >>
      Cuts[i \in 0..Len(maskDefinition.cutouts)] ==
        IF i = 0 THEN << >> ELSE Cuts[i - 1] \o Cut(i)
  IN  << <<"fillStyle", "#000000">>, <<"fillRect">>,
         <<"fillStyle", "#ffffff">>, <<"beginPath">> >>
      \o Polygon(landmarks_, maskDefinition.boundaryLandmarks, imageWidth,
                 imageHeight)
      \o << <<"fill">> >>
      \o Cuts[Len(maskDefinition.cutouts)]

\* generateMaskBuffer (maskProcessor.ts): the points attribute of an eye
\* polygon, one "x,y" pair per index; a landmark that is missing gives '0,0'
EyePointsReversed(indices, landmarks_, W, H) ==
  [i \in 1..Len(indices) |->
     LET idx == indices[Len(indices) + 1 - i]
     IN  IF idx < Len(landmarks_)
         THEN <<Px(At(landmarks_, idx).x, W), Px(At(landmarks_, idx).y, H)>>
         ELSE <<Num(0), Num(0)>>]

EyePoints(indices, landmarks_, W, H) ==
  [i \in 1..Len(indices) |->
     LET idx == indices[i]
     IN  IF idx < Len(landmarks_)
         THEN <<Px(At(landmarks_, idx).x, W), Px(At(landmarks_, idx).y, H)>>
         ELSE <<Num(0), Num(0)>>]

\* landmarks[i]?.x * W || 0
CornerOrZero(landmarks_, i, field, W) ==
  IF i < Len(landmarks_)
  THEN OrZero(Px(At(landmarks_, i)[field], W))
  ELSE Num(0)

\* generateMaskBuffer: the elements of the SVG document
generateMaskBufferSvg(landmarks_, W, H) ==
  LET mLeft == CornerOrZero(landmarks_, MOUTH_PTS[1], "x", W)
      mTop == CornerOrZero(landmarks_, MOUTH_PTS[2], "y", H)
      mRight == CornerOrZero(landmarks_, MOUTH_PTS[3], "x", W)
      mBottom == CornerOrZero(landmarks_, MOUTH_PTS[4], "y", H)
      mCX == Frac(Plus(mLeft, mRight), 1, 2)
      mCY == Frac(Plus(mTop, mBottom), 1, 2)
      mRX == MathMax(Frac(Minus(mRight, mLeft), 7, 20), Pixels(10))
      mRY == MathMax(Frac(Minus(mBottom, mTop), 9, 20), Pixels(10))
  IN  << [el |-> "rect", fill |-> "white"],
         [el |-> "polygon", fill |-> "black",
          points |-> EyePoints(LEFT_EYE, landmarks_, W, H)],
         [el |-> "polygon", fill |-> "black",
          points |-> EyePoints(RIGHT_EYE, landmarks_, W, H)],
         [el |-> "ellipse", fill |-> "black",
          cx |-> mCX, cy |-> mCY, rx |-> mRX, ry |-> mRY] >>

\* drawEdge: the outline of the mask, computed as in buildMaskPath
drawEdge(lm, W, H) ==
  <<"stroke", SubSeq(buildMaskPath(lm, W, H), 1, 10), "rgba(0,0,0,0.3)", 3>>

(***************************************************************************)
(* UVMapper.  A geometry is known by the size of its bounding box, three   *)
(* non-negative integers; a quotient of two of them is a JavaScript        *)
(* number: a ratio, Infinity (n / 0) or NaN (0 / 0).                       *)
(***************************************************************************)
\* a / b
Quotient(a, b) ==
  IF b # 0 THEN [tag |-> "ratio", n |-> a, d |-> b]
  ELSE IF a = 0 THEN [tag |-> "nan", n |-> 0, d |-> 0]
  ELSE [tag |-> "inf", n |-> 0, d |-> 0]

\* q < p / r and q > p / r for positive p / r; false for NaN
QuotientLess(q, p, r) == q.tag = "ratio" /\ q.n * r < p * q.d

QuotientGreater(q, p, r) ==
  (q.tag = "ratio" /\ q.n * r > p * q.d) \/ q.tag = "inf"

Max2(a, b) == IF a >= b THEN a ELSE b

Min2(a, b) == IF a <= b THEN a ELSE b

\* the method fields of the results of the three projections
planarProjection == [threw |-> FALSE, method |-> "planar"]

cylindricalProjection == [threw |-> FALSE, method |-> "cylindrical"]

sphericalProjection == [threw |-> FALSE, method |-> "spherical"]

\* autoProjection: flatness < 0.2, else aspectRatio > 2, else spherical
autoProjectionAspectFirst(size) ==
  LET aspectRatio == Quotient(Max2(size[1], size[2]), Min2(size[1], size[2]))
      flatness == Quotient(size[3], Max2(size[1], size[2]))
  IN  IF QuotientGreater(aspectRatio, 2, 1) THEN cylindricalProjection
      ELSE IF QuotientLess(flatness, 1, 5) THEN planarProjection
      ELSE sphericalProjection

autoProjection(size) ==
  LET aspectRatio == Quotient(Max2(size[1], size[2]), Min2(size[1], size[2]))
      flatness == Quotient(size[3], Max2(size[1], size[2]))
  IN  IF QuotientLess(flatness, 1, 5) THEN planarProjection
      ELSE IF QuotientGreater(aspectRatio, 2, 1) THEN cylindricalProjection
      ELSE sphericalProjection

\* generateUVs: config.method || 'auto', then the switch
generateUVs(size, configMethod) ==
  LET method == IF configMethod \in {Undefined, ""} THEN "auto"
                ELSE configMethod
  IN  CASE method = "planar" -> planarProjection
        [] method = "cylindrical" -> cylindricalProjection
        [] method = "spherical" -> sphericalProjection
        [] method = "auto" -> autoProjection(size)
        [] OTHER -> [threw |-> TRUE, method |-> method]

(***************************************************************************)
(* PromptProcessor.  A prompt is a JavaScript value: a string, held as the *)
(* sequence of its characters, or undefined.                               *)
(***************************************************************************)
\* the string of the characters cs
StringOf(cs) == [type |-> "string", chars |-> cs]

NotAString == [type |-> "undefined", chars |-> << >>]

ToLowerCase ==
  [A |-> "a", B |-> "b", C |-> "c", D |-> "d", E |-> "e", F |-> "f", G |->
  "g", H |-> "h", I |-> "i", J |-> "j", K |-> "k", L |-> "l", M |-> "m", N
  |-> "n", O |-> "o", P |-> "p", Q |-> "q", R |-> "r", S |-> "s", T |-> "t",
  U |-> "u", V |-> "v", W |-> "w", X |-> "x", Y |-> "y", Z |-> "z"]

\* s.toLowerCase()
Lower(cs) ==
  [i \in 1..Len(cs) |->
     IF cs[i] \in DOMAIN ToLowerCase THEN ToLowerCase[cs[i]] ELSE cs[i]]

WhiteSpace == {" ", "\t", "\n"}

\* s.trim()
Trim(cs) ==
  LET inked == {i \in 1..Len(cs) : cs[i] \notin WhiteSpace}
  IN  IF inked = {} THEN << >>
      ELSE LET first == CHOOSE i \in inked : \A j \in inked : i <= j
               last == CHOOSE i \in inked : \A j \in inked : i >= j
           IN  SubSeq(cs, first, last)

\* s.includes(word)
Includes(cs, word) ==
  \E k \in 0..(Len(cs) - Len(word)) : SubSeq(cs, k + 1, k + Len(word)) = word

\* the characters joined to a string value of the model
RECURSIVE Joined(_)
Joined(cs) == IF cs = << >> THEN "" ELSE Head(cs) \o Joined(Tail(cs))

inappropriateWords ==
  {<<"v", "i", "o", "l", "e", "n", "c", "e">>,
   <<"h", "a", "t", "e">>,
   <<"e", "x", "p", "l", "i", "c", "i", "t">>}

validatePrompt(prompt) ==
  IF prompt.type # "string" \/ prompt.chars = << >>
  THEN [valid |-> FALSE, error |-> "Prompt must be a non-empty string"]
  ELSE LET trimmed == Trim(prompt.chars)
       IN  IF Len(trimmed) < minLength
           THEN [valid |-> FALSE,
                 error |-> "Prompt must be at least " \o ToString(minLength)
                           \o " characters"]
           ELSE IF Len(trimmed) > maxLength
           THEN [valid |-> FALSE,
                 error |-> "Prompt must be less than " \o ToString(maxLength)
                           \o " characters"]
           ELSE IF \E word \in inappropriateWords :
                     Includes(Lower(trimmed), word)
           THEN [valid |-> FALSE,
                 error |-> "Prompt contains inappropriate content"]
           ELSE [valid |-> TRUE, error |-> Undefined]

STYLE_PRESETS ==
  [realistic |->
     "photorealistic, 4K, professional photography, detailed, high quality",
   artistic |->
     "artistic rendering, painted, stylized, creative, unique",
   fantasy |->
     "fantasy art, magical, mystical, ethereal, otherworldly",
   cyberpunk |->
     "cyberpunk, neon, futuristic, high-tech, glowing",
   steampunk |->
     "steampunk, vintage, mechanical, brass, gears",
   minimalist |->
     "minimalist, clean, simple, elegant, modern"]

QUALITY_PRESETS ==
  [low |->
     "512x512 resolution",
   medium |->
     "1024x1024 resolution, good quality",
   high |->
     "2048x2048 resolution, excellent quality, highly detailed",
   ultra |->
     "4096x4096 resolution, ultra high quality, extreme detail"]

LIGHTING_PRESETS ==
  [studio |->
     "studio lighting, professional lighting setup, key light, fill light",
   natural |->
     "natural lighting, daylight, soft shadows, outdoor",
   dramatic |->
     "dramatic lighting, high contrast, moody, cinematic",
   soft |->
     "soft lighting, diffused, gentle shadows, flattering"]

PROMPT_MATERIAL_PRESETS ==
  [fabric |->
     "fabric texture, cloth, woven, soft appearance",
   metal |->
     "metallic, shiny, reflective, polished metal",
   ceramic |->
     "ceramic, glossy, smooth, porcelain-like",
   plastic |->
     "plastic, matte, synthetic, uniform finish",
   leather |->
     "leather texture, supple, rich, aged patina",
   wood |->
     "wood texture, natural grain, warm tones"]

DETAIL_PRESETS ==
  [low |->
     "simple design, minimal details",
   medium |->
     "moderate details, balanced complexity",
   high |->
     "intricate details, complex patterns, fine textures",
   extreme |->
     "extremely detailed, hyper-detailed, every surface textured"]

\* config.field || fallback
OrDefault(config, field, fallback) ==
  IF field \in DOMAIN config /\ config[field] # Undefined
  THEN config[field] ELSE fallback

\* enhancePrompt: throws the validator's message, or returns the prompt
\* joined with the presets
enhancePrompt(prompt, config) ==
  LET validation == validatePrompt(prompt)
      style == OrDefault(config, "style", "realistic")
      quality == OrDefault(config, "quality", "high")
      lighting == OrDefault(config, "lighting", "studio")
      material == OrDefault(config, "material", "metal")
      detailLevel == OrDefault(config, "detailLevel", "high")
  IN  IF ~validation.valid
      THEN [threw |-> TRUE, message |-> validation.error]
      ELSE [threw |-> FALSE,
            enhanced |-> Joined(Trim(prompt.chars)) \o ", "
                         \o STYLE_PRESETS[style] \o ", "
                         \o QUALITY_PRESETS[quality] \o ", "
                         \o LIGHTING_PRESETS[lighting] \o ", "
                         \o PROMPT_MATERIAL_PRESETS[material] \o ", "
                         \o DETAIL_PRESETS[detailLevel] \o ", "
                         \o "mask, face mask, wearable art",
            style |-> style,
            quality |-> quality]

(***************************************************************************)
(* coordinates.ts.  A finite number is the fraction n / d with d > 0; the   *)
(* arithmetic is exact.                                                     *)
(***************************************************************************)
Ratio(a, b) == [tag |-> "num", n |-> a, d |-> b]

\* a parameter that is not given
NotGiven == [tag |-> "undefined", n |-> 0, d |-> 1]

RatioPlus(a, b) == Ratio(a.n * b.d + b.n * a.d, a.d * b.d)

RatioNeg(a) == Ratio(-a.n, a.d)

RatioMinus(a, b) == RatioPlus(a, RatioNeg(b))

RatioTimes(a, b) == Ratio(a.n * b.n, a.d * b.d)

\* a / b for b # 0
RatioOver(a, b) ==
  IF b.n > 0 THEN Ratio(a.n * b.d, a.d * b.n)
  ELSE Ratio(-(a.n * b.d), a.d * (-b.n))

RatioEq(a, b) == a.n * b.d = b.n * a.d

RatioLess(a, b) == a.n * b.d < b.n * a.d

RatioLessEq(a, b) == a.n * b.d <= b.n * a.d

\* the literals 0.5 and 2.0
Half == Ratio(1, 2)

DefaultFaceScale == Ratio(2, 1)

\* faceScale: number = 2.0
FaceScaleOrDefault(faceScale) ==
  IF faceScale.tag = "undefined" THEN DefaultFaceScale ELSE faceScale

normalizedToWorld(normalized, faceScale) ==
  LET s == FaceScaleOrDefault(faceScale)
  IN  [x |-> RatioTimes(RatioMinus(normalized.x, Half), s),
       y |-> RatioTimes(RatioNeg(RatioMinus(normalized.y, Half)), s),
       z |-> RatioTimes(RatioTimes(normalized.z, s), Half)]

worldToNormalizedNoHalf(world, faceScale) ==
  LET s == FaceScaleOrDefault(faceScale)
  IN  [x |-> RatioPlus(RatioOver(world.x, s), Half),
       y |-> RatioPlus(RatioNeg(RatioOver(world.y, s)), Half),
       z |-> RatioOver(world.z, s)]

worldToNormalized(world, faceScale) ==
  LET s == FaceScaleOrDefault(faceScale)
  IN  [x |-> RatioPlus(RatioOver(world.x, s), Half),
       y |-> RatioPlus(RatioNeg(RatioOver(world.y, s)), Half),
       z |-> RatioOver(world.z, RatioTimes(s, Half))]

\* Infinity, -Infinity and NaN
PosInfinity == [tag |-> "inf", n |-> 0, d |-> 1]

NegInfinity == [tag |-> "ninf", n |-> 0, d |-> 1]

NotANumber == [tag |-> "nan", n |-> 0, d |-> 1]

\* a < b for numbers that may be infinite; false when either is NaN
ExtLess(a, b) ==
  /\ a.tag # "nan" /\ b.tag # "nan"
  /\ \/ a.tag = "num" /\ b.tag = "num" /\ RatioLess(a, b)
     \/ a.tag = "ninf" /\ b.tag # "ninf"
     \/ b.tag = "inf" /\ a.tag # "inf"

\* Math.min(a, b) and Math.max(a, b)
RatioMin(a, b) ==
  IF a.tag = "nan" \/ b.tag = "nan" THEN NotANumber
  ELSE IF ExtLess(b, a) THEN b ELSE a

RatioMax(a, b) ==
  IF a.tag = "nan" \/ b.tag = "nan" THEN NotANumber
  ELSE IF ExtLess(a, b) THEN b ELSE a

\* a - b for numbers that may be infinite
ExtMinus(a, b) ==
  IF a.tag = "nan" \/ b.tag = "nan" THEN NotANumber
  ELSE IF a.tag = "num" /\ b.tag = "num" THEN RatioMinus(a, b)
  ELSE IF a.tag = b.tag THEN NotANumber
  ELSE IF a.tag = "inf" \/ b.tag = "ninf" THEN PosInfinity
  ELSE NegInfinity

\* the six accumulators of calculateFaceBoundingBox after the first i
\* landmarks, started at lowest (the minima) and highest (the maxima)
BoxAfter(landmarks_, lowest, highest) ==
  LET Step[i \in 0..Len(landmarks_)] ==
        IF i = 0
        THEN [minX |-> lowest, maxX |-> highest, minY |-> lowest,
              maxY |-> highest, minZ |-> lowest, maxZ |-> highest]
        ELSE LET before == Step[i - 1]
                 landmark == landmarks_[i]
             IN  [minX |-> RatioMin(before.minX, landmark.x),
                  maxX |-> RatioMax(before.maxX, landmark.x),
                  minY |-> RatioMin(before.minY, landmark.y),
                  maxY |-> RatioMax(before.maxY, landmark.y),
                  minZ |-> RatioMin(before.minZ, landmark.z),
                  maxZ |-> RatioMax(before.maxZ, landmark.z)]
  IN  Step[Len(landmarks_)]

\* the box with its extents
WithExtents(box) ==
  [minX |-> box.minX, maxX |-> box.maxX, minY |-> box.minY,
   maxY |-> box.maxY, minZ |-> box.minZ, maxZ |-> box.maxZ,
   width |-> ExtMinus(box.maxX, box.minX),
   height |-> ExtMinus(box.maxY, box.minY),
   depth |-> ExtMinus(box.maxZ, box.minZ)]

calculateFaceBoundingBoxFromZero(landmarks_) ==
  WithExtents(BoxAfter(landmarks_, Ratio(0, 1), Ratio(0, 1)))

calculateFaceBoundingBox(landmarks_) ==
  WithExtents(BoxAfter(landmarks_, PosInfinity, NegInfinity))

\* a / b of JavaScript for finite a and b: a division by zero is NaN or an
\* infinity
ExtOver(a, b) ==
  IF b.n # 0 THEN RatioOver(a, b)
  ELSE IF a.n = 0 THEN NotANumber
  ELSE IF a.n > 0 THEN PosInfinity
  ELSE NegInfinity

DefaultTargetSize == Ratio(2, 1)

\* targetSize: number = 2.0
TargetSizeOrDefault(targetSize) ==
  IF targetSize.tag = "undefined" THEN DefaultTargetSize ELSE targetSize

calculateOptimalFaceScaleNoGuard(landmarks_, targetSize) ==
  LET bbox == calculateFaceBoundingBox(landmarks_)
      maxDimension == RatioMax(bbox.width, bbox.height)
  IN  IF maxDimension.tag = "num"
      THEN ExtOver(TargetSizeOrDefault(targetSize), maxDimension)
      ELSE TargetSizeOrDefault(targetSize)

calculateOptimalFaceScale(landmarks_, targetSize) ==
  LET bbox == calculateFaceBoundingBox(landmarks_)
      maxDimension == RatioMax(bbox.width, bbox.height)
  IN  IF ExtLess(Ratio(0, 1), maxDimension) /\ maxDimension.tag = "num"
      THEN RatioOver(TargetSizeOrDefault(targetSize), maxDimension)
      ELSE TargetSizeOrDefault(targetSize)

(***************************************************************************)
(* segmentHair: the sample of the category mask for the output pixel       *)
(* (x, y) of a W x H photo                                                  *)
(***************************************************************************)
\* Math.round(n / d) for n >= 0 and d > 0: halves are rounded up
MathRound(n, d) == (2 * n + d) \div (2 * d)

\* Math.round((x / W) * maskW)
maskX(x, W, maskW) == MathRound(x * maskW, W)

\* Math.round((y / H) * maskH)
maskY(y, H, maskH) == MathRound(y * maskH, H)

maskIdx(x, y, W, H, maskW, maskH) ==
  maskY(y, H, maskH) * maskW + maskX(x, W, maskW)

(***************************************************************************)
(* State                                                                   *)
(***************************************************************************)
VARIABLES
  cache,        \* TextureCache.cache, entries in Map iteration order
  now,          \* Date.now(), ms since the cache was constructed
  event,        \* the operation performed by the last step
  setLog,       \* keys passed to TextureCache.set since construction or clear
  expired,      \* an entry was removed by get since construction or clear
  feed,         \* index of the next not yet used request
  sets,         \* number of set calls
  extras,       \* number of clock advances, clears and sets of a present key
  isGenerating, \* AITextureGenerator.isGenerating
  config,       \* AITextureGenerator.config.retries: << >> or <<n>>
  pc,           \* where each caller's request is suspended
  creq,         \* the request of each caller
  attempt,      \* callAIModel's loop variable
  wait,         \* delay of each caller's pending backoff timer, in ms
  calls,        \* number of requests issued
  gticks,       \* number of clock advances
  landmarks,    \* the landmark array handed to the components
  valid,        \* result of validateLandmarks(landmarks), once called
  geometry,     \* what each component made of the landmarks
  args,         \* the function called and its arguments
  result,       \* << >> until the function has returned, then <<value>>
  props,        \* MaskCompositor's props
  canvas,       \* the canvas: its size and what was painted since it was set
  draws,        \* the calls of draw: which image load each is waiting for
  hook,         \* useTextureGeneration: options, state, the state the
                \* functions of the last render closed over, pending calls
  mat,          \* useMaterial: its material and the one of the last render
  gpu           \* the materials and textures created and not disposed

driverVars == <<setLog, expired, feed, sets, extras>>

genVars == <<isGenerating, config, pc, creq, attempt, wait, calls, gticks>>

lmVars == <<landmarks, valid, geometry>>

fnVars == <<args, result>>

canvasVars == <<props, canvas, draws>>

hookVars == <<hook, mat, gpu>>

uiVars == <<canvasVars, hookVars>>

restVars == <<lmVars, fnVars, uiVars>>

vars == <<cache, now, event, driverVars, genVars, restVars>>

\* the last step: operation, caller (0: none), key, result and value
Ev(o, p, k, r, v) ==
  [op |-> o, caller |-> p, key |-> k, result |-> r, value |-> v]

NoEvent == Ev("init", 0, NoKey, Null, Null)

(***************************************************************************)
(* Specification of the cache alone: set, get and clear called directly    *)
(***************************************************************************)
Callers == {1, 2}

NoRequest == [prompt |-> "", style |-> Undefined, quality |-> Undefined]

\* new TextureCache(), and the driver of the cache-only specification
DriverInit ==
  /\ cache = << >>
  /\ now = 0
  /\ event = NoEvent
  /\ setLog = << >>
  /\ expired = FALSE
  /\ feed = 1
  /\ sets = 0
  /\ extras = 0

\* constructor: { timeout: 60000, retries: 3, ...config }
Constructor(given) == IF given = << >> THEN <<DefaultRetries>> ELSE given

\* new AITextureGenerator(config) with config.retries absent or given
GeneratorInit(given) ==
  /\ isGenerating = FALSE
  /\ config = Constructor(given)
  /\ pc = [p \in Callers |-> "idle"]
  /\ creq = [p \in Callers |-> NoRequest]
  /\ attempt = [p \in Callers |-> 0]
  /\ wait = [p \in Callers |-> 0]
  /\ calls = 0
  /\ gticks = 0

\* no landmarks detected yet
NoLandmarks ==
  /\ landmarks = << >>
  /\ valid = "unknown"
  /\ geometry = [c \in {} |-> "none"]

\* no function called
NoCall ==
  /\ args = [fn |-> "none"]
  /\ result = << >>

\* a canvas element as created: 300 x 150, nothing painted
BlankCanvas == [width |-> 300, height |-> 150, painted |-> << >>]

\* no compositor mounted
NoCompositor ==
  /\ props = [photo |-> Null]
  /\ canvas = BlankCanvas
  /\ draws = << >>

\* a material is known by its id, 0 is null; textures by the ids of the maps
NoTextures ==
  [baseColor |-> 0, normal |-> 0, roughness |-> 0, metalness |-> 0,
   ao |-> 0, emissive |-> 0]

\* useState's initial value in useTextureGeneration
InitialState ==
  [isGenerating |-> FALSE, progress |-> 0, error |-> Null, material |-> 0,
   textures |-> NoTextures]

\* no call of generateTextures or generateTexturesStreaming is pending
IdleCall ==
  [pc |-> "idle", kind |-> "none", key |-> NoKey, outcome |-> "none",
   value |-> Null, textures |-> NoTextures, chunks |-> 0]

NoGpu == [next |-> 1, materials |-> {}, textures |-> {}, maps |-> {}]

\* the hooks as mounted, nothing generated
NoHook ==
  /\ hook = [mounted |-> FALSE, enabled |-> TRUE, state |-> InitialState,
             view |-> InitialState, calls |-> [p \in Callers |-> IdleCall]]
  /\ mat = [mounted |-> FALSE, initialPreset |-> Undefined, material |-> 0,
            view |-> 0]
  /\ gpu = NoGpu

CacheInit ==
  /\ DriverInit
  /\ GeneratorInit(<< >>)
  /\ NoLandmarks
  /\ NoCall
  /\ NoCompositor
  /\ NoHook

\* the keys the environment rewrites: the first and the last entry in Map
\* order
EdgeKeys(m) == IF Len(m) = 0 THEN {} ELSE {m[1].key, m[Len(m)].key}

\* the keys the environment reads: the first entry and a key that is absent
ReadKeys(m) ==
  (IF Len(m) = 0 THEN {} ELSE {m[1].key}) \cup {generateKey(ReqAt(feed))}

\* cache.set(key, value) with a key that is not in the cache
CacheSetFresh ==
  /\ sets < MaxSets
  /\ LET k == generateKey(ReqAt(feed))
     IN  /\ cache' = TextureCacheSet(cache, k, "texA", now)
         /\ event' = Ev("set", 0, k, Null, Null)
         /\ setLog' = Append(setLog, k)
  /\ feed' = (feed % NumRequests) + 1
  /\ sets' = sets + 1
  /\ UNCHANGED <<now, expired, extras, genVars, restVars>>

\* cache.set(key, value) with a key that is in the cache
CacheSetPresent(k) ==
  /\ sets < MaxSets
  /\ extras < MaxExtras
  /\ k \in EdgeKeys(cache)
  /\ cache' = TextureCacheSet(cache, k, "texB", now)
  /\ event' = Ev("set", 0, k, Null, Null)
  /\ setLog' = Append(setLog, k)
  /\ sets' = sets + 1
  /\ extras' = extras + 1
  /\ UNCHANGED <<now, expired, feed, genVars, restVars>>

\* cache.get(key)
CacheGet(k) ==
  /\ k \in ReadKeys(cache)
  /\ LET g == TextureCacheGet(cache, k, now)
     IN  /\ cache' = g.cache
         /\ event' = Ev("get", 0, k, g.result, Null)
         /\ expired' = (expired \/ Len(g.cache) < Len(cache))
  /\ UNCHANGED <<now, setLog, feed, sets, extras, genVars, restVars>>

\* cache.clear()
CacheClear ==
  /\ Len(cache) > 0
  /\ extras < MaxExtras
  /\ cache' = TextureCacheClear(cache)
  /\ event' = Ev("clear", 0, NoKey, Null, Null)
  /\ setLog' = << >>
  /\ expired' = FALSE
  /\ extras' = extras + 1
  /\ UNCHANGED <<now, feed, sets, genVars, restVars>>

\* the clock advances by 1 ms or past the time to live
CacheTick(d) ==
  /\ extras < MaxExtras
  /\ now' = now + d
  /\ extras' = extras + 1
  /\ event' = Ev("tick", 0, NoKey, Null, Null)
  /\ UNCHANGED <<cache, setLog, expired, feed, sets, genVars, restVars>>

CacheNext ==
  \/ CacheSetFresh
  \/ \E k \in MapKeys(cache) : CacheSetPresent(k)
  \/ \E k \in MapKeys(cache) \cup {generateKey(ReqAt(feed))} : CacheGet(k)
  \/ CacheClear
  \/ \E d \in {1, ttl + 1} : CacheTick(d)

SpecCache == CacheInit /\ [][CacheNext]_vars

(***************************************************************************)
(* AITextureGenerator                                                      *)
(***************************************************************************)
ErrBusy == "Generation already in progress"
ErrFailed == "Failed to generate textures"
ErrStream == "Streaming failed"

\* the values of config.retries a caller passes to the constructor
RetryChoices == {<< >>, <<0>>, <<1>>, <<2>>}

\* the requests issued through the generator
GenRequests == {ReqAt(1), ReqAt(2)}

\* why an attempt fails: fetch rejects, response.ok is false, the
\* AbortSignal.timeout fires, response.json() rejects
FailCauses == {"network", "status", "timeout", "parse"}

\* this.config.retries || 3
RetryLimit(cfg) == IF cfg = << >> \/ cfg[1] = 0 THEN 3 ELSE cfg[1]

\* generate, up to its first await: cache lookup, single-flight guard
GenerateEntryNoGuard(m, generating, k, t) ==
  LET g == TextureCacheGet(m, k, t)
  IN  IF g.result # Null
      THEN [path |-> "cached", cache |-> g.cache, value |-> g.result]
      ELSE [path |-> "start", cache |-> g.cache, value |-> Null]

GenerateEntryGuardFirst(m, generating, k, t) ==
  LET g == TextureCacheGet(m, k, t)
  IN  IF generating
      THEN [path |-> "busy", cache |-> m, value |-> Null]
      ELSE IF g.result # Null
           THEN [path |-> "cached", cache |-> g.cache, value |-> g.result]
           ELSE [path |-> "start", cache |-> g.cache, value |-> Null]

GenerateEntry(m, generating, k, t) ==
  LET g == TextureCacheGet(m, k, t)
  IN  IF g.result # Null
      THEN [path |-> "cached", cache |-> g.cache, value |-> g.result]
      ELSE IF generating
           THEN [path |-> "busy", cache |-> g.cache, value |-> Null]
           ELSE [path |-> "start", cache |-> g.cache, value |-> Null]

\* callAIModel's catch block after the failure of attempt a (0-based) of n:
\* back off 1000 * (a + 1) ms, or leave the loop and throw
AfterFailureFlatDelay(a, n) ==
  IF a < n - 1
  THEN [next |-> "backoff", delay |-> BackoffUnit]
  ELSE [next |-> "throw", delay |-> 0]

AfterFailure(a, n) ==
  IF a < n - 1
  THEN [next |-> "backoff", delay |-> BackoffUnit * (a + 1)]
  ELSE [next |-> "throw", delay |-> 0]

\* the request of caller p is accepted: the guard is taken and the first
\* remote call (attempt 0) is issued
Accept(p, r, to) ==
  /\ isGenerating' = TRUE
  /\ pc' = [pc EXCEPT ![p] = to]
  /\ creq' = [creq EXCEPT ![p] = r]
  /\ attempt' = [attempt EXCEPT ![p] = 0]
  /\ wait' = [wait EXCEPT ![p] = 0]

\* the request of caller p settles; its bookkeeping is dropped
Settle(p) ==
  /\ pc' = [pc EXCEPT ![p] = "idle"]
  /\ creq' = [creq EXCEPT ![p] = NoRequest]
  /\ attempt' = [attempt EXCEPT ![p] = 0]
  /\ wait' = [wait EXCEPT ![p] = 0]

\* generator.generate(r) by caller p, up to the first await
Generate(p, r) ==
  /\ pc[p] = "idle"
  /\ calls < MaxCalls
  /\ LET k == generateKey(r)
         e == GenerateEntry(cache, isGenerating, k, now)
     IN  /\ cache' = e.cache
         /\ event' = Ev("generate", p, k, e.path,
                        IF e.path = "busy" THEN ErrBusy ELSE e.value)
         /\ expired' = (expired \/ Len(e.cache) < Len(cache))
         /\ calls' = calls + 1
         /\ IF e.path = "start"
            THEN Accept(p, r, "fetching")
            ELSE UNCHANGED <<isGenerating, pc, creq, attempt, wait>>
  /\ UNCHANGED <<now, config, gticks, setLog, feed, sets, extras, restVars>>

\* the pending fetch of caller p succeeds with response d: callAIModel
\* returns, generate stores the response and releases the guard
FetchOkKeepsGuard(p, d) ==
  /\ pc[p] = "fetching"
  /\ cache' = TextureCacheSet(cache, generateKey(creq[p]), d, now)
  /\ Settle(p)
  /\ event' = Ev("fetchOk", p, generateKey(creq[p]), "resolved", d)
  /\ UNCHANGED <<now, isGenerating, config, calls, gticks, driverVars,
                 restVars>>

FetchOk(p, d) ==
  /\ pc[p] = "fetching"
  /\ cache' = TextureCacheSet(cache, generateKey(creq[p]), d, now)
  /\ isGenerating' = FALSE
  /\ Settle(p)
  /\ event' = Ev("fetchOk", p, generateKey(creq[p]), "resolved", d)
  /\ UNCHANGED <<now, config, calls, gticks, driverVars, restVars>>

\* the pending fetch of caller p fails
FetchFail(p, cause) ==
  /\ pc[p] = "fetching"
  /\ LET f == AfterFailure(attempt[p], RetryLimit(config))
     IN  IF f.next = "backoff"
         THEN /\ pc' = [pc EXCEPT ![p] = "backoff"]
              /\ wait' = [wait EXCEPT ![p] = f.delay]
              /\ event' = Ev("fetchFail", p, generateKey(creq[p]), "backoff",
                             cause)
              /\ UNCHANGED <<isGenerating, creq, attempt>>
         ELSE /\ isGenerating' = FALSE
              /\ Settle(p)
              /\ event' = Ev("fetchFail", p, generateKey(creq[p]), "rejected",
                             ErrFailed)
  /\ UNCHANGED <<cache, now, config, calls, gticks, driverVars, restVars>>

\* the backoff timer of caller p fires: attempt++ and the next remote call
BackoffDoneNoIncrement(p) ==
  /\ pc[p] = "backoff"
  /\ pc' = [pc EXCEPT ![p] = "fetching"]
  /\ wait' = [wait EXCEPT ![p] = 0]
  /\ event' = Ev("retry", p, generateKey(creq[p]), "fetching", Null)
  /\ UNCHANGED <<cache, now, isGenerating, config, creq, attempt, calls,
                 gticks, driverVars, restVars>>

BackoffDone(p) ==
  /\ pc[p] = "backoff"
  /\ attempt' = [attempt EXCEPT ![p] = @ + 1]
  /\ pc' = [pc EXCEPT ![p] = "fetching"]
  /\ wait' = [wait EXCEPT ![p] = 0]
  /\ event' = Ev("retry", p, generateKey(creq[p]), "fetching", Null)
  /\ UNCHANGED <<cache, now, isGenerating, config, creq, calls, gticks,
                 driverVars, restVars>>

\* first next() on generator.generateStreaming(r): single-flight guard
StreamEntryNoGuard(generating) == "start"

StreamEntry(generating) == IF generating THEN "busy" ELSE "start"

StreamStart(p, r) ==
  /\ pc[p] = "idle"
  /\ calls < MaxCalls
  /\ LET path == StreamEntry(isGenerating)
     IN  /\ event' = Ev("stream", p, generateKey(r), path,
                        IF path = "busy" THEN ErrBusy ELSE Null)
         /\ IF path = "start"
            THEN Accept(p, r, "sfetching")
            ELSE UNCHANGED <<isGenerating, pc, creq, attempt, wait>>
  /\ calls' = calls + 1
  /\ UNCHANGED <<cache, now, config, gticks, driverVars, restVars>>

\* the generator of caller p finishes: finally { this.isGenerating = false }
StreamFinishCaching(p, what, r, v) ==
  /\ isGenerating' = FALSE
  /\ Settle(p)
  /\ event' = Ev(what, p, generateKey(creq[p]), r, v)
  /\ cache' = TextureCacheSet(cache, generateKey(creq[p]), "texA", now)
  /\ UNCHANGED <<now, config, calls, gticks, driverVars, restVars>>

StreamFinish(p, what, r, v) ==
  /\ isGenerating' = FALSE
  /\ Settle(p)
  /\ event' = Ev(what, p, generateKey(creq[p]), r, v)
  /\ UNCHANGED <<cache, now, config, calls, gticks, driverVars, restVars>>

\* the generator of caller p moves to another suspension point
StreamMove(p, to, what, r) ==
  /\ pc' = [pc EXCEPT ![p] = to]
  /\ event' = Ev(what, p, generateKey(creq[p]), r, Null)
  /\ UNCHANGED <<cache, now, isGenerating, config, creq, attempt, wait,
                 calls, gticks, driverVars, restVars>>

\* streamAIModel: the fetch returns an OK response with a body
StreamFetchOk(p) ==
  /\ pc[p] = "sfetching"
  /\ StreamMove(p, "sreading", "streamOpen", "reading")

\* streamAIModel: the fetch rejects, or is not OK, or has no body
StreamFetchFail(p) ==
  /\ pc[p] = "sfetching"
  /\ StreamFinish(p, "streamFail", "rejected", ErrStream)

\* streamAIModel: reader.read() returns data lines, no data line, the end
\* of the stream or an error
StreamRead(p, what) ==
  /\ pc[p] = "sreading"
  /\ CASE what = "data" -> StreamMove(p, "syielded", "streamRead", "chunk")
       [] what = "nodata" -> StreamMove(p, "sreading", "streamRead", "skip")
       [] what = "done" -> StreamFinish(p, "streamDone", "done", Null)
       [] what = "error" -> StreamFinish(p, "streamFail", "rejected", ErrStream)

\* the consumer calls next() again: another data line of the same read is
\* yielded, or the generator reads on
StreamNext(p, more) ==
  /\ pc[p] = "syielded"
  /\ IF more THEN StreamMove(p, "syielded", "streamNext", "chunk")
     ELSE StreamMove(p, "sreading", "streamNext", "reading")

\* the consumer leaves its for-await loop: return() runs the finally block
StreamReturn(p) ==
  /\ pc[p] = "syielded"
  /\ StreamFinish(p, "streamReturn", "returned", Null)

\* the consumer drops the generator without calling return()
StreamAbandon(p) ==
  /\ pc[p] = "syielded"
  /\ StreamMove(p, "abandoned", "abandon", "abandoned")

\* the clock advances by 1 ms or by the time to live
GenTick(d) ==
  /\ gticks < MaxGenTicks
  /\ now' = now + d
  /\ gticks' = gticks + 1
  /\ event' = Ev("tick", 0, NoKey, Null, Null)
  /\ UNCHANGED <<cache, isGenerating, config, pc, creq, attempt, wait,
                 calls, driverVars, restVars>>

FetchReturn(p) ==
  \/ \E d \in Responses : FetchOk(p, d)
  \/ \E c \in FailCauses : FetchFail(p, c)

Init ==
  /\ DriverInit
  /\ \E given \in RetryChoices : GeneratorInit(given)
  /\ NoLandmarks
  /\ NoCall
  /\ NoCompositor
  /\ NoHook

Next ==
  \/ \E p \in Callers, r \in GenRequests : Generate(p, r)
  \/ \E p \in Callers : FetchReturn(p)
  \/ \E p \in Callers : BackoffDone(p)
  \/ \E p \in Callers, r \in GenRequests : StreamStart(p, r)
  \/ \E p \in Callers : StreamFetchOk(p)
  \/ \E p \in Callers : StreamFetchFail(p)
  \/ \E p \in Callers, w \in {"data", "nodata", "done", "error"} :
       StreamRead(p, w)
  \/ \E p \in Callers, more \in BOOLEAN : StreamNext(p, more)
  \/ \E p \in Callers : StreamReturn(p)
  \/ \E p \in Callers : StreamAbandon(p)
  \/ \E d \in {1, ttl} : GenTick(d)

Spec == Init /\ [][Next]_vars

\* every remote attempt eventually returns, fails or times out, and every
\* backoff timer eventually fires
Fairness ==
  \A p \in Callers : WF_vars(FetchReturn(p)) /\ WF_vars(BackoffDone(p))

FairSpec == Spec /\ Fairness

(***************************************************************************)
(* Specification of the landmark consumers: one landmark array is handed   *)
(* to validateLandmarks and to each component                              *)
(***************************************************************************)
Components ==
  {"FaceMesh", "MaskLoader", "MaskCompositor", "generateInpaintMask",
   "generateMaskBuffer"}

\* the values a coordinate takes: the numbers from -1 - 1/Grid to 1 + 1/Grid
\* in steps of 1/Grid, and the values that are not finite numbers
CoordValues ==
  {Num(n) : n \in (-Grid - 1)..(Grid + 1)} \cup {NaN, PosInf, NegInf, Undef}

\* well-formed points, on the edges and inside of the valid ranges
BasePoints ==
  {[x |-> Num(0), y |-> Num(Grid), z |-> Num(-Grid)],
   [x |-> Num(1), y |-> Num(1), z |-> Num(0)]}

\* a point that differs from b in at most one coordinate
Variants(b) ==
  {[b EXCEPT !.x = c] : c \in CoordValues} \cup
  {[b EXCEPT !.y = c] : c \in CoordValues} \cup
  {[b EXCEPT !.z = c] : c \in CoordValues}

\* the lengths of the arrays: empty, short, one short of a full detection, full
Lengths == {0, 1, 2, LandmarkCount - 1, LandmarkCount}

\* arrays of n copies of a well-formed point, one of them replaced
LandmarkInputs ==
  {[i \in 1..n |-> IF i = pos THEN odd ELSE b] :
     n \in Lengths, pos \in {1, 2, LandmarkCount}, b \in BasePoints,
     odd \in UNION {Variants(bb) : bb \in BasePoints}}

LandmarkInit ==
  /\ DriverInit
  /\ GeneratorInit(<< >>)
  /\ landmarks \in LandmarkInputs
  /\ valid = "unknown"
  /\ geometry = [c \in Components |-> "none"]
  /\ NoCall
  /\ NoCompositor
  /\ NoHook

Made(c, g) ==
  /\ geometry[c] = "none"
  /\ geometry' = [geometry EXCEPT ![c] = g]
  /\ UNCHANGED <<cache, now, event, driverVars, genVars, landmarks, valid,
                 fnVars, uiVars>>

Validate ==
  /\ valid = "unknown"
  /\ valid' = IF validateLandmarks(landmarks) THEN "true" ELSE "false"
  /\ UNCHANGED <<cache, now, event, driverVars, genVars, landmarks, geometry,
                 fnVars, uiVars>>

RunFaceMesh == Made("FaceMesh", FaceMesh(landmarks))

RunMaskLoader == Made("MaskLoader", MaskLoader(landmarks))

RunMaskCompositor == Made("MaskCompositor", MaskCompositorDraw(landmarks))

RunInpaintMask ==
  Made("generateInpaintMask", generateInpaintMask(landmarks, MASK_DEFINITION))

RunMaskBuffer == Made("generateMaskBuffer", generateMaskBuffer(landmarks))

LandmarkNext ==
  \/ Validate
  \/ RunFaceMesh
  \/ RunMaskLoader
  \/ RunMaskCompositor
  \/ RunInpaintMask
  \/ RunMaskBuffer

SpecLandmarks == LandmarkInit /\ [][LandmarkNext]_vars

(***************************************************************************)
(* Specification of the functions: one call of one function, its          *)
(* arguments drawn from a bounded set                                      *)
(***************************************************************************)
\* landmark counts handed to validateTriangles: 0 .. 468 + MaxExcess
TriangleArgs ==
  {[fn |-> "validateTriangles", landmarkCount |-> n] :
     n \in 0..(LandmarkCount + MaxExcess)}

\* 468 landmarks spread over the grid of coordinates, in two layouts
Layout(a) ==
  [i \in 1..LandmarkCount |->
     [x |-> Num((a * i) % (Grid + 1)),
      y |-> Num(((i \div 3) + a) % (Grid + 1)),
      z |-> Num(0)]]

\* the landmarks whose coordinates are varied: mouth corners, an eye point
\* of each eye, the top of the head and an ear
VariedIndices == {78, 308, 13, 14, 33, 362, 10, 234}

\* a layout with one coordinate of one landmark replaced by any value
MaskLandmarks ==
  {[Layout(a) EXCEPT ![idx + 1].x = c] :
     a \in {1, 2}, idx \in VariedIndices, c \in CoordValues} \cup
  {[Layout(a) EXCEPT ![idx + 1].y = c] :
     a \in {1, 2}, idx \in VariedIndices, c \in CoordValues}

\* image sizes W x H: a small image, a square one and a wide one
Sizes == {<<20, 16>>, <<512, 512>>, <<640, 480>>}

\* the mask definition of the application and one with another outline
MaskDefinitions ==
  {MASK_DEFINITION, [boundaryLandmarks |-> MOUTH, cutouts |-> <<LEFT_EYE>>]}

\* MaskCompositor's draw with its props, once the photo of W x H has loaded
BuildMaskPathArgs ==
  {[fn |-> "buildMaskPath", landmarks |-> lm, maskDefinition |-> def,
    W |-> size[1], H |-> size[2]] :
     lm \in MaskLandmarks, def \in {MASK_DEFINITION}, size \in Sizes}

InpaintMaskArgs ==
  {[fn |-> "generateInpaintMask", landmarks |-> lm, maskDefinition |-> def,
    W |-> size[1], H |-> size[2]] :
     lm \in MaskLandmarks, def \in MaskDefinitions, size \in Sizes}

\* the backend is handed any array: a full one or a truncated one
MaskBufferArgs ==
  {[fn |-> "generateMaskBuffer", landmarks |-> lm, W |-> size[1],
    H |-> size[2]] :
     lm \in MaskLandmarks \cup {SubSeq(Layout(a), 1, 100) : a \in {1, 2}},
     size \in Sizes}

\* bounding sizes up to MaxSize, each method and a method that is unknown
GenerateUVsArgs ==
  {[fn |-> "generateUVs", size |-> <<sx, sy, sz>>, method |-> m] :
     sx \in 0..MaxSize, sy \in 0..MaxSize, sz \in 0..MaxSize,
     m \in {Undefined, "", "auto", "planar", "cylindrical", "spherical",
            "box"}}

\* normalized landmarks: x and y in [0, 1], z in [-1, 1], in steps of 1 / Grid
NormalizedPoints ==
  {[x |-> Ratio(i, Grid), y |-> Ratio(j, Grid), z |-> Ratio(k, Grid)] :
     i \in 0..Grid, j \in 0..Grid, k \in (-Grid)..Grid}

\* face scales: 1/2, 2, 5/2, 3, 7, and the default
FaceScales ==
  {Ratio(1, 2), Ratio(2, 1), Ratio(5, 2), Ratio(3, 1), Ratio(7, 1), NotGiven}

NormalizedToWorldArgs ==
  {[fn |-> "normalizedToWorld", normalized |-> p, faceScale |-> s] :
     p \in NormalizedPoints, s \in FaceScales}

\* the world points that normalizedToWorld makes, with the landmark each
\* was made of
WorldToNormalizedArgs ==
  {[fn |-> "worldToNormalized", world |-> normalizedToWorld(p, s),
    faceScale |-> s, normalized |-> p] :
     p \in NormalizedPoints, s \in FaceScales}

\* landmarks for the bounding box, some of them differing in z alone
BoxPoints ==
  {[x |-> Ratio(p[1], Grid), y |-> Ratio(p[2], Grid), z |-> Ratio(p[3], Grid)] :
     p \in {<<0, 0, 0>>, <<0, 0, -Grid>>, <<1, 0, -1>>, <<1, Grid, 0>>,
            <<Grid, 1, 1>>, <<Grid, Grid, Grid>>}}

LandmarkSequences ==
  UNION {[1..n -> BoxPoints] : n \in 0..MaxLandmarks}

BoundingBoxArgs ==
  {[fn |-> "calculateFaceBoundingBox", landmarks |-> q] :
     q \in LandmarkSequences}

TargetSizes == {NotGiven, Ratio(1, 2), Ratio(2, 1), Ratio(3, 1)}

OptimalFaceScaleArgs ==
  {[fn |-> "calculateOptimalFaceScale", landmarks |-> q, targetSize |-> t] :
     q \in LandmarkSequences, t \in TargetSizes}

\* the pixels of photos and the sizes of category masks
SegmentHairArgs ==
  {[fn |-> "segmentHair", x |-> x, y |-> y, W |-> W, H |-> H,
    maskW |-> mw, maskH |-> mh] :
     x \in 0..(MaxPhoto - 1), y \in 0..(MaxPhoto - 1),
     W \in 1..MaxPhoto, H \in 1..MaxPhoto,
     mw \in 1..MaxMask, mh \in 1..MaxMask}

CallArgs ==
  TriangleArgs \cup BuildMaskPathArgs \cup InpaintMaskArgs \cup MaskBufferArgs
    \cup GenerateUVsArgs \cup NormalizedToWorldArgs
    \cup WorldToNormalizedArgs \cup BoundingBoxArgs
    \cup OptimalFaceScaleArgs
    \cup {a \in SegmentHairArgs : a.x < a.W /\ a.y < a.H}

CallsInit ==
  /\ DriverInit
  /\ GeneratorInit(<< >>)
  /\ NoLandmarks
  /\ args \in CallArgs
  /\ result = << >>
  /\ NoCompositor
  /\ NoHook

Return(v) ==
  /\ result = << >>
  /\ result' = <<v>>
  /\ UNCHANGED <<cache, now, event, driverVars, genVars, lmVars, args, uiVars>>

\* validateTriangles(getFaceTriangles(), landmarkCount)
CallValidateTriangles ==
  /\ args.fn = "validateTriangles"
  /\ Return(validateTriangles(getFaceTriangles, args.landmarkCount))

\* draw -> photoImg.onload -> buildMaskPath(landmarks, W, H)
CallBuildMaskPath ==
  /\ args.fn = "buildMaskPath"
  /\ Len(args.landmarks) >= LandmarkCount
  /\ Return(buildMaskPath(args.landmarks, args.W, args.H))

CallGenerateInpaintMask ==
  /\ args.fn = "generateInpaintMask"
  /\ Return(generateInpaintMaskCalls(args.landmarks, args.maskDefinition,
                                     args.W, args.H))

CallGenerateMaskBuffer ==
  /\ args.fn = "generateMaskBuffer"
  /\ Return(generateMaskBufferSvg(args.landmarks, args.W, args.H))

CallGenerateUVs ==
  /\ args.fn = "generateUVs"
  /\ Return(generateUVs(args.size, args.method))

CallNormalizedToWorld ==
  /\ args.fn = "normalizedToWorld"
  /\ Return(normalizedToWorld(args.normalized, args.faceScale))

CallWorldToNormalized ==
  /\ args.fn = "worldToNormalized"
  /\ Return(worldToNormalized(args.world, args.faceScale))

CallCalculateFaceBoundingBox ==
  /\ args.fn = "calculateFaceBoundingBox"
  /\ Return(calculateFaceBoundingBox(args.landmarks))

CallCalculateOptimalFaceScale ==
  /\ args.fn = "calculateOptimalFaceScale"
  /\ Return(calculateOptimalFaceScale(args.landmarks, args.targetSize))

\* one pass of the loop body of segmentHair
CallSegmentHair ==
  /\ args.fn = "segmentHair"
  /\ Return([maskX |-> maskX(args.x, args.W, args.maskW),
             maskY |-> maskY(args.y, args.H, args.maskH),
             maskIdx |-> maskIdx(args.x, args.y, args.W, args.H,
                                 args.maskW, args.maskH)])

CallsNext ==
  \/ CallGenerateUVs
  \/ CallSegmentHair
  \/ CallCalculateOptimalFaceScale
  \/ CallCalculateFaceBoundingBox
  \/ CallNormalizedToWorld
  \/ CallWorldToNormalized
  \/ CallValidateTriangles
  \/ CallBuildMaskPath
  \/ CallGenerateInpaintMask
  \/ CallGenerateMaskBuffer

SpecCalls == CallsInit /\ [][CallsNext]_vars

(***************************************************************************)
(* Specification of the 2D compositor: draw is called on mount and when a  *)
(* prop changes; the images it creates load later, in any order            *)
(***************************************************************************)
\* no photo chosen yet
NoPhoto == [src |-> Null, naturalWidth |-> 0, naturalHeight |-> 0]

\* the props draw reads; a photo is a data URL with its natural size
PropsChoices ==
  [photo : {NoPhoto, [src |-> "photoA", naturalWidth |-> 512,
                      naturalHeight |-> 512]},
   landmarks : {<< >>, Layout(1)},
   textureBase64 : {Null, "texA"},
   solidColor : {"#1a1a2e"}]

CanvasInit ==
  /\ DriverInit
  /\ GeneratorInit(<< >>)
  /\ NoLandmarks
  /\ NoCall
  /\ props \in PropsChoices
  /\ canvas = BlankCanvas
  /\ draws = << >>
  /\ NoHook

\* the compositor touches nothing but its canvas
CanvasOnly ==
  UNCHANGED <<cache, now, event, driverVars, genVars, lmVars, fnVars,
              hookVars>>

\* draw(): returns early without a photo or a full landmark array, else
\* creates the photo image, whose load is awaited
Draw ==
  /\ Len(draws) < MaxDraws
  /\ IF props.photo.src = Null \/ Len(props.landmarks) < LandmarkCount
     THEN draws' = Append(draws, [pc |-> "returned", props |-> props])
     ELSE draws' = Append(draws, [pc |-> "photo", props |-> props])
  /\ UNCHANGED <<props, canvas>>
  /\ CanvasOnly

\* a prop changes: the component renders again and the effect calls draw
Render(newProps) ==
  /\ Len(draws) < MaxDraws
  /\ newProps # props
  /\ props' = newProps
  /\ IF newProps.photo.src = Null \/ Len(newProps.landmarks) < LandmarkCount
     THEN draws' = Append(draws, [pc |-> "returned", props |-> newProps])
     ELSE draws' = Append(draws, [pc |-> "photo", props |-> newProps])
  /\ UNCHANGED canvas
  /\ CanvasOnly

\* ctx.save(); ctx.clip(maskPath, 'evenodd'); fillRect; ctx.restore()
ClipFill(maskPath, style) == <<"clipFill", maskPath, "evenodd", style>>

\* photoImg.onload of the i-th draw
PhotoLoaded(i) ==
  /\ i \in 1..Len(draws)
  /\ draws[i].pc = "photo"
  /\ LET p == draws[i].props
         W == p.photo.naturalWidth
         H == p.photo.naturalHeight
         maskPath == buildMaskPath(p.landmarks, W, H)
         photoOnly == [width |-> W, height |-> H,
                       painted |-> << <<"drawImage", p.photo.src>> >>]
     IN  IF p.textureBase64 # Null
         THEN /\ canvas' = photoOnly
              /\ draws' = [draws EXCEPT ![i].pc = "texture"]
         ELSE /\ canvas' =
                   [photoOnly EXCEPT !.painted =
                      @ \o <<ClipFill(maskPath, <<"color", p.solidColor>>),
                             drawEdge(p.landmarks, W, H)>>]
              /\ draws' = [draws EXCEPT ![i].pc = "done"]
  /\ UNCHANGED props
  /\ CanvasOnly

\* texImg.onload of the i-th draw: the pattern is clipped to the mask path
\* built when the photo loaded, then the edge is stroked
TextureLoaded(i) ==
  /\ i \in 1..Len(draws)
  /\ draws[i].pc = "texture"
  /\ LET p == draws[i].props
         W == p.photo.naturalWidth
         H == p.photo.naturalHeight
         maskPath == buildMaskPath(p.landmarks, W, H)
     IN  canvas' =
           [canvas EXCEPT !.painted =
              @ \o <<ClipFill(maskPath, <<"pattern", p.textureBase64>>),
                     drawEdge(p.landmarks, W, H)>>]
  /\ draws' = [draws EXCEPT ![i].pc = "done"]
  /\ UNCHANGED props
  /\ CanvasOnly

\* an image fails to load: no onerror handler, nothing more is painted
LoadFailed(i) ==
  /\ i \in 1..Len(draws)
  /\ draws[i].pc \in {"photo", "texture"}
  /\ draws' = [draws EXCEPT ![i].pc = "failed"]
  /\ UNCHANGED <<props, canvas>>
  /\ CanvasOnly

CanvasNext ==
  \/ Draw
  \/ \E newProps \in PropsChoices : Render(newProps)
  \/ \E i \in 1..MaxDraws : PhotoLoaded(i)
  \/ \E i \in 1..MaxDraws : TextureLoaded(i)
  \/ \E i \in 1..MaxDraws : LoadFailed(i)

SpecCanvas == CanvasInit /\ [][CanvasNext]_vars

(***************************************************************************)
(* Specification of the hooks: useTextureGeneration on one generator, and  *)
(* useMaterial.  A call runs to its first await in one step; what follows  *)
(* the await runs in a later step.  The functions a caller holds are those *)
(* of the last render and read the state of that render.                   *)
(***************************************************************************)
TextureNames ==
  <<"baseColor", "normal", "roughness", "metalness", "ao", "emissive">>

\* MaterialSystem.createTextureFromImageData for each of names, in the order
\* of TextureNames: the textures record and the resources afterwards
CreateTextures(g, textures, names) ==
  LET Step[i \in 0..Len(TextureNames)] ==
        IF i = 0 THEN [g |-> g, textures |-> textures]
        ELSE LET before == Step[i - 1]
                 name == TextureNames[i]
             IN  IF name \in names
                 THEN [g |-> [before.g EXCEPT
                                !.next = @ + 1,
                                !.textures = @ \cup {before.g.next}],
                       textures |-> [before.textures EXCEPT
                                       ![name] = before.g.next]]
                 ELSE before
  IN  Step[Len(TextureNames)]

\* MaterialSystem.createMaterial with the maps of textures
CreateMaterial(g, owner, textures) ==
  [g EXCEPT !.next = @ + 1,
            !.materials = @ \cup {[id |-> g.next, owner |-> owner]},
            !.maps = @ \cup {<<g.next, textures[n]>> :
                               n \in {m \in DOMAIN textures :
                                        textures[m] # 0}}]

\* MaterialSystem.disposeMaterial: the maps of the material, then itself
disposeMaterial(g, id) ==
  [g EXCEPT !.materials = {m \in @ : m.id # id},
            !.textures = @ \ {pair[2] : pair \in {q \in g.maps : q[1] = id}}]

\* the prompts and configurations handed to the hook
HookPrompts ==
  {NotAString,
   StringOf(<<"g", "o", "l", "d", " ">>),
   StringOf(<<"j", "a", "d", "e", " ", "m", "a", "s", "k">>),
   StringOf(<<"H", "a", "t", "e", " ", "m", "a", "s", "k">>),
   StringOf([i \in 1..(maxLength + 1) |-> "a"])}

HookConfigs == {[style |-> Undefined], [style |-> "artistic"]}

\* the presets of MaterialSystem that setPreset is called with, and an
\* unknown name
PresetNames == {"gold", "silver", "unknown"}

KnownPresets ==
  {"gold", "silver", "copper", "ceramic", "fabric", "leather", "plastic",
   "glass"}

HooksInit ==
  /\ DriverInit
  /\ GeneratorInit(<< >>)
  /\ NoLandmarks
  /\ NoCall
  /\ NoCompositor
  /\ \E component \in {"useTextureGeneration", "useMaterial"},
        enabled \in BOOLEAN, initialPreset \in {Undefined, "gold"} :
       /\ hook = [mounted |-> component = "useTextureGeneration",
                  enabled |-> enabled, state |-> InitialState,
                  view |-> InitialState,
                  calls |-> [p \in Callers |-> IdleCall]]
       /\ IF component = "useMaterial" /\ initialPreset # Undefined
          THEN /\ mat = [mounted |-> TRUE, initialPreset |-> initialPreset,
                         material |-> 1, view |-> 1]
               /\ gpu = CreateMaterial(NoGpu, "useMaterial", NoTextures)
          ELSE /\ mat = [mounted |-> component = "useMaterial",
                         initialPreset |-> Undefined, material |-> 0,
                         view |-> 0]
               /\ gpu = NoGpu

\* the hooks leave the canvas, the landmarks and the generator's own callers
HooksOnly ==
  UNCHANGED <<now, config, pc, creq, attempt, wait, gticks, driverVars,
              lmVars, fnVars, canvasVars>>

\* the request the hook passes to the generator
HookRequest(enhanced) ==
  [prompt |-> enhanced.enhanced, style |-> enhanced.style,
   quality |-> enhanced.quality]

\* generateTextures(prompt, config), up to the await of generator.generate
HookGenerate(p, prompt, promptConfig) ==
  /\ hook.mounted
  /\ hook.calls[p].pc = "idle"
  /\ calls < MaxHookCalls
  /\ calls' = calls + 1
  /\ IF ~hook.enabled \/ hook.view.isGenerating
     THEN /\ event' = Ev("generateTextures", p, NoKey, "ignored", prompt)
          /\ UNCHANGED <<hook, cache, isGenerating>>
     ELSE LET enhanced == enhancePrompt(prompt, promptConfig)
          IN  IF enhanced.threw
              THEN /\ hook' = [hook EXCEPT
                                 !.state.progress = 10,
                                 !.state.error = enhanced.message,
                                 !.state.isGenerating = FALSE]
                   /\ event' = Ev("generateTextures", p, NoKey, "invalid",
                                  prompt)
                   /\ UNCHANGED <<cache, isGenerating>>
              ELSE LET k == generateKey(HookRequest(enhanced))
                       e == GenerateEntry(cache, isGenerating, k, now)
                   IN  /\ cache' = e.cache
                       /\ isGenerating' = (isGenerating \/ e.path = "start")
                       /\ event' = Ev("generateTextures", p, k, e.path,
                                      prompt)
                       /\ hook' =
                            [hook EXCEPT
                               !.state.isGenerating = TRUE,
                               !.state.error = Null,
                               !.state.progress = 20,
                               !.calls[p] =
                                 [IdleCall EXCEPT
                                    !.kind = "generate",
                                    !.key = k,
                                    !.pc = IF e.path = "start"
                                           THEN "fetching" ELSE "settled",
                                    !.outcome =
                                      CASE e.path = "cached" -> "resolved"
                                        [] e.path = "busy" -> "rejected"
                                        [] OTHER -> "none",
                                    !.value =
                                      IF e.path = "busy" THEN ErrBusy
                                      ELSE e.value]]
  /\ UNCHANGED <<mat, gpu>>
  /\ HooksOnly

\* callAIModel returns a response: generate stores it and clears its flag
HookRemoteOk(p, d) ==
  /\ hook.calls[p].pc = "fetching"
  /\ hook.calls[p].kind = "generate"
  /\ cache' = TextureCacheSet(cache, hook.calls[p].key, d, now)
  /\ isGenerating' = FALSE
  /\ hook' = [hook EXCEPT !.calls[p].pc = "settled",
                          !.calls[p].outcome = "resolved",
                          !.calls[p].value = d]
  /\ event' = Ev("fetchOk", p, hook.calls[p].key, "resolved", d)
  /\ UNCHANGED <<mat, gpu, calls>>
  /\ HooksOnly

\* callAIModel throws after its last attempt: generate clears its flag
HookRemoteFail(p) ==
  /\ hook.calls[p].pc = "fetching"
  /\ hook.calls[p].kind = "generate"
  /\ isGenerating' = FALSE
  /\ hook' = [hook EXCEPT !.calls[p].pc = "settled",
                          !.calls[p].outcome = "rejected",
                          !.calls[p].value = ErrFailed]
  /\ event' = Ev("fetchFail", p, hook.calls[p].key, "rejected", ErrFailed)
  /\ UNCHANGED <<cache, mat, gpu, calls>>
  /\ HooksOnly

\* generateTextures after the await: textures and material are created and
\* put in the state, or the catch block (also that of
\* generateTexturesStreaming) stores the message
HookContinue(p) ==
  /\ hook.calls[p].pc = "settled"
  /\ IF hook.calls[p].outcome = "resolved"
     THEN LET made == CreateTextures(gpu, NoTextures,
                                     {"baseColor", "normal", "roughness",
                                      "metalness"})
          IN  /\ gpu' = CreateMaterial(made.g, "useTextureGeneration",
                                       made.textures)
              /\ hook' = [hook EXCEPT
                            !.state.progress = 100,
                            !.state.textures = made.textures,
                            !.state.material = made.g.next,
                            !.state.isGenerating = FALSE,
                            !.calls[p] = IdleCall]
     ELSE /\ hook' = [hook EXCEPT
                        !.state.error = hook.calls[p].value,
                        !.state.isGenerating = FALSE,
                        !.calls[p] = IdleCall]
          /\ UNCHANGED gpu
  /\ event' = Ev("generateTexturesDone", p, hook.calls[p].key,
                 hook.calls[p].outcome, hook.calls[p].value)
  /\ UNCHANGED <<cache, isGenerating, mat, calls>>
  /\ HooksOnly

\* the maps a chunk of the stream carries
ChunkChoices ==
  {{"baseColor"}, {"baseColor", "normal", "roughness", "metalness"}}

\* generateTexturesStreaming(prompt, config), up to the first next() of
\* generator.generateStreaming
HookStream(p, prompt, promptConfig) ==
  /\ hook.mounted
  /\ hook.calls[p].pc = "idle"
  /\ calls < MaxHookCalls
  /\ calls' = calls + 1
  /\ IF ~hook.enabled \/ hook.view.isGenerating
     THEN /\ event' = Ev("generateTexturesStreaming", p, NoKey, "ignored",
                         prompt)
          /\ UNCHANGED <<hook, isGenerating>>
     ELSE LET enhanced == enhancePrompt(prompt, promptConfig)
          IN  IF enhanced.threw
              THEN /\ hook' = [hook EXCEPT
                                 !.state.progress = 0,
                                 !.state.error = enhanced.message,
                                 !.state.isGenerating = FALSE]
                   /\ event' = Ev("generateTexturesStreaming", p, NoKey,
                                  "invalid", prompt)
                   /\ UNCHANGED isGenerating
              ELSE LET k == generateKey(HookRequest(enhanced))
                       path == StreamEntry(isGenerating)
                   IN  /\ isGenerating' = TRUE
                       /\ event' = Ev("generateTexturesStreaming", p, k, path,
                                      prompt)
                       /\ hook' =
                            [hook EXCEPT
                               !.state.isGenerating = TRUE,
                               !.state.error = Null,
                               !.state.progress = 0,
                               !.calls[p] =
                                 [IdleCall EXCEPT
                                    !.kind = "stream",
                                    !.key = k,
                                    !.pc = IF path = "start"
                                           THEN "streaming" ELSE "settled",
                                    !.outcome = IF path = "start"
                                                THEN "none" ELSE "rejected",
                                    !.value = IF path = "start"
                                              THEN Null ELSE ErrBusy]]
  /\ UNCHANGED <<cache, mat, gpu>>
  /\ HooksOnly

\* a chunk arrives: a texture for each map it carries, then a new material
\* of the textures so far, put in the state
HookStreamChunk(p, chunk) ==
  /\ hook.calls[p].pc = "streaming"
  /\ hook.calls[p].chunks < MaxChunks
  /\ LET made == CreateTextures(gpu, hook.calls[p].textures, chunk)
         progress == IF "roughness" \in chunk THEN 75
                     ELSE IF "normal" \in chunk THEN 50
                     ELSE IF "baseColor" \in chunk THEN 25
                     ELSE hook.state.progress
     IN  /\ gpu' = CreateMaterial(made.g, "useTextureGeneration",
                                  made.textures)
         /\ hook' = [hook EXCEPT
                       !.state.progress = progress,
                       !.state.material = made.g.next,
                       !.state.textures = made.textures,
                       !.calls[p].textures = made.textures,
                       !.calls[p].chunks = @ + 1]
  /\ event' = Ev("chunk", p, hook.calls[p].key, "yielded", Null)
  /\ UNCHANGED <<cache, isGenerating, mat, calls>>
  /\ HooksOnly

\* the stream ends: generateStreaming's finally, then the hook's last setState
HookStreamEnd(p) ==
  /\ hook.calls[p].pc = "streaming"
  /\ isGenerating' = FALSE
  /\ hook' = [hook EXCEPT !.state.progress = 100,
                          !.state.isGenerating = FALSE,
                          !.calls[p] = IdleCall]
  /\ event' = Ev("streamEnd", p, hook.calls[p].key, "resolved", Null)
  /\ UNCHANGED <<cache, mat, gpu, calls>>
  /\ HooksOnly

\* streamAIModel throws: generateStreaming's finally, then the hook's catch
HookStreamFail(p) ==
  /\ hook.calls[p].pc = "streaming"
  /\ isGenerating' = FALSE
  /\ hook' = [hook EXCEPT !.state.error = ErrStream,
                          !.state.isGenerating = FALSE,
                          !.calls[p] = IdleCall]
  /\ event' = Ev("streamFail", p, hook.calls[p].key, "rejected", ErrStream)
  /\ UNCHANGED <<cache, mat, gpu, calls>>
  /\ HooksOnly

\* clearMaterial: disposes the material of the last render, resets the state
ClearMaterial ==
  /\ hook.mounted
  /\ gpu' = IF hook.view.material # 0
            THEN disposeMaterial(gpu, hook.view.material) ELSE gpu
  /\ hook' = [hook EXCEPT !.state = InitialState]
  /\ event' = Ev("clearMaterial", 0, NoKey, Null, Null)
  /\ UNCHANGED <<cache, isGenerating, mat, calls>>
  /\ HooksOnly

\* the component renders: the functions the hook hands out close over the
\* state of this render
Rerender ==
  /\ hook.view # hook.state
  /\ hook' = [hook EXCEPT !.view = hook.state]
  /\ event' = Ev("render", 0, NoKey, Null, Null)
  /\ UNCHANGED <<cache, isGenerating, mat, gpu, calls>>
  /\ HooksOnly

\* the component of useMaterial renders: the argument of useState is
\* evaluated again, its value is dropped
MaterialRerender ==
  /\ mat.view # mat.material
  /\ mat' = [mat EXCEPT !.view = mat.material]
  /\ gpu' = IF mat.initialPreset # Undefined
            THEN CreateMaterial(gpu, "useMaterial", NoTextures) ELSE gpu
  /\ event' = Ev("render", 0, NoKey, Null, Null)
  /\ UNCHANGED <<cache, isGenerating, hook, calls>>
  /\ HooksOnly

\* useMaterial.setPreset: createFromPreset throws for an unknown name
SetPreset(presetName) ==
  /\ mat.mounted
  /\ calls < MaxPresets
  /\ calls' = calls + 1
  /\ IF presetName \in KnownPresets
     THEN /\ gpu' = CreateMaterial(gpu, "useMaterial", NoTextures)
          /\ mat' = [mat EXCEPT !.material = gpu.next]
     ELSE UNCHANGED <<gpu, mat>>
  /\ event' = Ev("setPreset", 0, NoKey, Null, presetName)
  /\ UNCHANGED <<cache, isGenerating, hook>>
  /\ HooksOnly

\* useMaterial.dispose
MaterialDispose ==
  /\ mat.view # 0
  /\ gpu' = disposeMaterial(gpu, mat.view)
  /\ mat' = [mat EXCEPT !.material = 0]
  /\ event' = Ev("dispose", 0, NoKey, Null, Null)
  /\ UNCHANGED <<cache, isGenerating, hook, calls>>
  /\ HooksOnly

HooksNext ==
  \/ \E p \in Callers, prompt \in HookPrompts, promptConfig \in HookConfigs :
       HookGenerate(p, prompt, promptConfig)
  \/ \E p \in Callers : HookRemoteOk(p, "texA")
  \/ \E p \in Callers : HookRemoteFail(p)
  \/ \E p \in Callers : HookContinue(p)
  \/ \E p \in Callers, prompt \in HookPrompts, promptConfig \in HookConfigs :
       HookStream(p, prompt, promptConfig)
  \/ \E p \in Callers, chunk \in ChunkChoices : HookStreamChunk(p, chunk)
  \/ \E p \in Callers : HookStreamEnd(p)
  \/ \E p \in Callers : HookStreamFail(p)
  \/ ClearMaterial
  \/ Rerender
  \/ MaterialRerender
  \/ \E presetName \in PresetNames : SetPreset(presetName)
  \/ MaterialDispose

SpecHooks == HooksInit /\ [][HooksNext]_vars

(***************************************************************************)
(* Claims about the cache alone (SpecCache)                                *)
(***************************************************************************)
IsDistinct(q) == \A i, j \in 1..Len(q) : q[i] = q[j] => i = j

\* position in the log of the most recent set of key k
LastSet(log, k) ==
  CHOOSE i \in 1..Len(log) :
    log[i] = k /\ \A j \in 1..Len(log) : log[j] = k => j <= i

\* the cache was empty and has since seen exactly n set calls, all with
\* different keys, the last step being the n-th of them
FilledWithDistinct(n) ==
  /\ event.op = "set"
  /\ Len(setLog) = n
  /\ IsDistinct(setLog)
  /\ ~expired

\* C2: starting from an empty cache, after 21 set calls with pairwise
\* distinct keys the cache holds exactly 20 entries, the key set first is
\* absent and the 20 keys set after it are all present.
C2_CacheEviction ==
  FilledWithDistinct(21) =>
    /\ Len(cache) = 20
    /\ ~MapHas(cache, setLog[1])
    /\ \A i \in 2..21 : MapHas(cache, setLog[i])

C2_Witness ==
  /\ FilledWithDistinct(21)
  /\ Len(cache) = 20
  /\ setLog[1] = generateKey(ReqAt(1))

\* C3: whenever a set removes an entry, the removed entry is the one whose
\* latest insertion (set) is the oldest among the entries in the cache,
\* whatever was read with get in between.
C3_EvictsOldestInserted ==
  [][event'.op = "set" =>
       \A k \in MapKeys(cache) \ MapKeys(cache') :
         \A k2 \in MapKeys(cache) :
           LastSet(setLog, k) <= LastSet(setLog, k2)]_vars

\* C4: the cache never holds more than 20 entries, and a set removes an
\* entry only if the cache would otherwise hold more than 20 entries.
C4_CacheBound ==
  /\ [](Len(cache) <= maxSize)
  /\ [][event'.op = "set" /\ MapKeys(cache) \ MapKeys(cache') # {} =>
          Len(cache) + (IF MapHas(cache, event'.key) THEN 0 ELSE 1)
            > maxSize]_vars

(***************************************************************************)
(* Claims about the generator (Spec, FairSpec)                             *)
(***************************************************************************)
\* a request was accepted and has not settled
Outstanding == \E q \in Callers : pc[q] # "idle"

\* the cache holds an entry for key k that is not older than the time to live
FreshEntry(m, k, t) == MapHas(m, k) /\ t - MapGet(m, k).timestamp <= ttl

\* the cache holds an entry for key k that is older than the time to live
StaleEntry(m, k, t) == MapHas(m, k) /\ t - MapGet(m, k).timestamp > ttl

\* the step is a request rejected at once by the single-flight guard: the
\* error is thrown, nothing is queued, no remote call is started
RejectedAtOnce ==
  /\ event'.result = "busy"
  /\ event'.value = ErrBusy
  /\ pc' = pc
  /\ attempt' = attempt
  /\ isGenerating' = isGenerating

\* C1 as stated: every generate or generateStreaming request issued while
\* an earlier request is outstanding fails at once with 'Generation already
\* in progress', is not queued and starts no remote call.
C1_SingleFlightAsStated ==
  [][event'.op \in {"generate", "stream"} /\ Outstanding => RejectedAtOnce]_vars

\* C1, amended: every generateStreaming request, and every generate request
\* whose key has no unexpired cache entry, issued while an earlier request
\* is outstanding fails at once with 'Generation already in progress', is
\* not queued and starts no remote call.
C1_SingleFlight ==
  [][/\ event'.op \in {"generate", "stream"}
     /\ Outstanding
     /\ event'.op = "generate" => ~FreshEntry(cache, event'.key, now)
     => RejectedAtOnce]_vars

C1_Witness ==
  /\ event.op = "generate"
  /\ event.result = "busy"
  /\ \E q \in Callers : q # event.caller /\ pc[q] = "backoff"

\* the number of attempts the configuration asks for: config.retries, the
\* default 3 when it is not given or 0
ConfiguredAttempts == IF config[1] = 0 THEN DefaultRetries ELSE config[1]

C6_Termination ==
  \A p \in Callers : (pc[p] \in {"fetching", "backoff"}) ~> (pc[p] = "idle")

C6_Witness ==
  \E p \in Callers : pc[p] = "fetching" /\ attempt[p] = 2

\* C7: a generate request whose key has a cached entry not older than 24
\* hours returns that entry's response and issues no remote call, whether
\* or not another generation is outstanding.
C7_CacheHit ==
  [][event'.op = "generate" /\ FreshEntry(cache, event'.key, now) =>
       /\ event'.result = "cached"
       /\ event'.value = MapGet(cache, event'.key).data
       /\ pc' = pc
       /\ attempt' = attempt
       /\ isGenerating' = isGenerating
       /\ cache' = cache]_vars

C7_Witness ==
  /\ event.op = "generate"
  /\ event.result = "cached"
  /\ event.value = "texB"
  /\ \E q \in Callers : pc[q] = "fetching"

\* C8 as stated: a lookup of an entry older than 24 hours returns null and
\* removes the entry, and the generate for that key issues a remote call.
C8_ExpiryAsStated ==
  [][event'.op = "generate" /\ StaleEntry(cache, event'.key, now) =>
       /\ ~MapHas(cache', event'.key)
       /\ event'.result = "start"
       /\ pc'[event'.caller] = "fetching"]_vars

\* C8, amended: a lookup of an entry older than 24 hours returns null and
\* removes the entry; the generate for that key issues a remote call when
\* no generation is outstanding and is rejected by the single-flight guard
\* otherwise; no generate returns a response older than 24 hours.
C8_Expiry ==
  [][event'.op = "generate" =>
       /\ StaleEntry(cache, event'.key, now) =>
            /\ ~MapHas(cache', event'.key)
            /\ Len(cache') = Len(cache) - 1
            /\ event'.result = (IF isGenerating THEN "busy" ELSE "start")
            /\ ~isGenerating => pc'[event'.caller] = "fetching"
       /\ event'.result = "cached" =>
            now - MapGet(cache, event'.key).timestamp <= ttl]_vars

C8_Witness ==
  /\ event.op = "generate"
  /\ event.result = "start"
  /\ expired
  /\ calls = 2
  /\ Len(cache) = 0
  /\ now > ttl

(***************************************************************************)
(* Claims about the landmark consumers (SpecLandmarks)                     *)
(***************************************************************************)
\* C9: every component that builds geometry from landmarks builds nothing
\* when validateLandmarks returns false for them.
C9_ValidationGate ==
  \A c \in DOMAIN geometry :
    geometry[c] = "built" => validateLandmarks(landmarks)

\* a coordinate is a number within [lo, hi]
Within(c, lo, hi) == c.tag = "num" /\ lo * Grid <= c.v /\ c.v <= hi * Grid

\* a coordinate is a number, or an infinity, outside [lo, hi]
Outside(c, lo, hi) ==
  \/ c.tag = "num" /\ (c.v < lo * Grid \/ c.v > hi * Grid)
  \/ c.tag \in {"inf", "ninf"}

\* C10: validateLandmarks returns false for an empty sequence and for a
\* sequence with a point whose x or y is outside [0,1], whose z is outside
\* [-1,1] or that has a NaN coordinate; it returns true for every non-empty
\* sequence whose points all have x, y in [0,1] and z in [-1,1].
C10_ValidateLandmarks ==
  valid # "unknown" =>
    /\ Len(landmarks) = 0 => valid = "false"
    /\ (\E i \in 1..Len(landmarks) :
          \/ Outside(landmarks[i].x, 0, 1)
          \/ Outside(landmarks[i].y, 0, 1)
          \/ Outside(landmarks[i].z, -1, 1)
          \/ NaN \in {landmarks[i].x, landmarks[i].y, landmarks[i].z})
         => valid = "false"
    /\ (/\ Len(landmarks) > 0
        /\ \A i \in 1..Len(landmarks) :
             /\ Within(landmarks[i].x, 0, 1)
             /\ Within(landmarks[i].y, 0, 1)
             /\ Within(landmarks[i].z, -1, 1))
         => valid = "true"

C10_Witness ==
  /\ valid = "true"
  /\ Len(landmarks) = LandmarkCount
  /\ landmarks[LandmarkCount].z = Num(-Grid)

\* C11: the face mesh builder returns an empty geometry whenever the
\* landmarks fail validateLandmarks or some index of the triangulation table
\* is >= the number of landmarks; a geometry that was built has no index
\* that refers to a vertex that does not exist.
C11_MeshRejection ==
  geometry["FaceMesh"] # "none" =>
    LET table == getFaceTriangles
        beyond == \E i \in 1..Len(table) : table[i] >= Len(landmarks)
    IN  /\ (~validateLandmarks(landmarks) \/ beyond)
              => geometry["FaceMesh"] = "empty"
        /\ geometry["FaceMesh"] = "built" => ~beyond

\* valid landmarks, too few for the table: rejected by the triangle check
C11_Witness ==
  /\ geometry["FaceMesh"] = "empty"
  /\ validateLandmarks(landmarks)
  /\ Len(landmarks) = 2

(***************************************************************************)
(* Claims about single functions (SpecCalls)                               *)
(***************************************************************************)
Returned(f) == args.fn = f /\ result # << >>

\* C12: validateTriangles(getFaceTriangles(), n) is false whenever some index
\* of the triangulation table is >= n and true for n = 468: every index of
\* FACE_MESH_TRIANGLES lies in 0..467.
C12_ValidateTriangles ==
  /\ \A t \in 1..Len(FACE_MESH_TRIANGLES) : \A c \in 1..3 :
        FACE_MESH_TRIANGLES[t][c] \in 0..(LandmarkCount - 1)
  /\ Returned("validateTriangles") =>
        /\ (\E t \in 1..Len(FACE_MESH_TRIANGLES) : \E c \in 1..3 :
              FACE_MESH_TRIANGLES[t][c] >= args.landmarkCount)
             => result = <<FALSE>>
        /\ args.landmarkCount = LandmarkCount => result = <<TRUE>>

C12_Witness ==
  /\ Returned("validateTriangles")
  /\ args.landmarkCount = 10
  /\ result = <<FALSE>>

\* the pixel-space point of landmark idx
PixelPoint(lm, idx, W, H) == <<Px(lm[idx + 1].x, W), Px(lm[idx + 1].y, H)>>

\* the closed sub-path through the landmarks of indices, in that order
ClosedSubPath(lm, indices, W, H) ==
  [i \in 1..(Len(indices) + 1) |->
     IF i = 1 THEN <<"moveTo">> \o PixelPoint(lm, indices[1], W, H)
     ELSE IF i <= Len(indices)
       THEN <<"lineTo">> \o PixelPoint(lm, indices[i], W, H)
       ELSE <<"closePath">>]

\* q occurs in path as a run of consecutive calls
Emits(path, q) ==
  \E k \in 0..(Len(path) - Len(q)) : SubSeq(path, k + 1, k + Len(q)) = q

Backwards(q) == [i \in 1..Len(q) |-> q[Len(q) + 1 - i]]

\* C13: for every cutout index list of the canvas mask builder (the two eye
\* contours), the sub-path it emits has as vertices the pixel-space points
\* of the landmarks in the exact reverse of the stored index order, and is
\* closed.
C13_CutoutWinding ==
  Returned("buildMaskPath") =>
    \A cutout \in {LEFT_EYE, RIGHT_EYE} :
      Emits(result[1],
            ClosedSubPath(args.landmarks, Backwards(cutout), args.W, args.H))

\* a path whose eye contour read forwards differs from the one read backwards
C13_Witness ==
  /\ Returned("buildMaskPath")
  /\ args.W = 640
  /\ ~Emits(result[1],
            ClosedSubPath(args.landmarks, LEFT_EYE, args.W, args.H))
  /\ Emits(result[1],
           ClosedSubPath(args.landmarks, Backwards(LEFT_EYE), args.W, args.H))

\* C14: for a 468-point landmark array and a target of W x H,
\* generateMaskBuffer emits for each eye a polygon whose vertex list is
\* exactly the pixel-space points of the configured eye indices, in the
\* original (not reversed) order.
C14_EyeHoles ==
  (Returned("generateMaskBuffer") /\ Len(args.landmarks) = LandmarkCount) =>
    \A eye \in {LEFT_EYE, RIGHT_EYE} :
      \E e \in 1..Len(result[1]) :
        /\ result[1][e].el = "polygon"
        /\ result[1][e].points =
             [i \in 1..Len(eye) |->
                PixelPoint(args.landmarks, eye[i], args.W, args.H)]

C14_Witness ==
  /\ Returned("generateMaskBuffer")
  /\ Len(args.landmarks) = LandmarkCount
  /\ args.W = 512 /\ args.H = 512
  /\ result[1][2].points # Backwards(result[1][2].points)

\* C15: the outer sub-path of the 2D mask is the closed polygon whose
\* vertices are the mask definition's boundaryLandmarks in pixel space, in
\* the given order, for the canvas compositor's builder and for
\* generateInpaintMask alike.
C15_MaskBoundary ==
  (Returned("buildMaskPath") \/ Returned("generateInpaintMask")) =>
    Emits(result[1],
          ClosedSubPath(args.landmarks, args.maskDefinition.boundaryLandmarks,
                        args.W, args.H))

\* a is a number of at least n pixels
AtLeastPixels(a, n) ==
  (a.tag = "num" /\ a.v >= n * 20 * Grid) \/ a.tag = "inf"

\* C16: in every mask builder that draws the mouth as an ellipse (canvas
\* compositor, backend SVG generator) both radii of the ellipse are at least
\* 10 pixels, for all landmarks.
C16_MouthFloor ==
  /\ Returned("buildMaskPath") =>
        \A k \in 1..Len(result[1]) :
          result[1][k][1] = "ellipse" =>
            /\ AtLeastPixels(result[1][k][4], 10)
            /\ AtLeastPixels(result[1][k][5], 10)
  /\ Returned("generateMaskBuffer") =>
        \A e \in 1..Len(result[1]) :
          result[1][e].el = "ellipse" =>
            /\ AtLeastPixels(result[1][e].rx, 10)
            /\ AtLeastPixels(result[1][e].ry, 10)

\* C20: for a geometry of bounding size (sx, sy, sz), generateUVs with method
\* 'auto' or no method selects planar iff sz / max(sx, sy) < 0.2, otherwise
\* cylindrical iff max(sx, sy) / min(sx, sy) > 2, otherwise spherical, and
\* reports the method selected; (10,10,1) is planar, (10,2,2) cylindrical,
\* (5,5,4) spherical.  A quotient by 0 is infinite or NaN and NaN compares
\* false.
C20_AutoProjection ==
  (Returned("generateUVs") /\ args.method \in {Undefined, "auto"}) =>
    LET sx == args.size[1]
        sy == args.size[2]
        sz == args.size[3]
        hi == IF sx >= sy THEN sx ELSE sy
        lo == IF sx >= sy THEN sy ELSE sx
        flat == hi > 0 /\ 5 * sz < hi
        long == hi > 2 * lo
        selected == result[1].method
    IN  /\ ~result[1].threw
        /\ selected = "planar" <=> flat
        /\ selected = "cylindrical" <=> (~flat /\ long)
        /\ selected = "spherical" <=> (~flat /\ ~long)
        /\ args.size = <<10, 10, 1>> => selected = "planar"
        /\ args.size = <<10, 2, 2>> => selected = "cylindrical"
        /\ args.size = <<5, 5, 4>> => selected = "spherical"

C20_Witness ==
  /\ Returned("generateUVs")
  /\ args.method = Undefined
  /\ args.size = <<10, 2, 2>>
  /\ result[1].method = "cylindrical"

\* |a - b| <= 1e-9
WithinTolerance(a, b) ==
  LET diff == RatioMinus(a, b)
      size == IF diff.n < 0 THEN -diff.n ELSE diff.n
  IN  size <= diff.d \div 1000000000

Bounds(values, lowest, highest, extent) ==
  /\ \A v \in values : RatioLessEq(lowest, v) /\ RatioLessEq(v, highest)
  /\ \E v \in values : RatioEq(v, lowest)
  /\ \E v \in values : RatioEq(v, highest)
  /\ extent.tag = "num"
  /\ RatioEq(extent, RatioMinus(highest, lowest))
  /\ extent.n >= 0

\* C22: for a non-empty landmark sequence calculateFaceBoundingBox returns
\* on each axis a minimum and a maximum that bound every landmark and are
\* each attained by one, and width, height and depth are maximum minus
\* minimum and not negative.
C22_BoundingBox ==
  (Returned("calculateFaceBoundingBox") /\ Len(args.landmarks) > 0)
    => LET box == result[1]
           lms == args.landmarks
           coords(axis) == {lms[i][axis] : i \in 1..Len(lms)}
       IN  /\ \A f \in {"minX", "maxX", "minY", "maxY", "minZ", "maxZ"} :
                box[f].tag = "num"
           /\ Bounds(coords("x"), box.minX, box.maxX, box.width)
           /\ Bounds(coords("y"), box.minY, box.maxY, box.height)
           /\ Bounds(coords("z"), box.minZ, box.maxZ, box.depth)

C22_Witness ==
  /\ Returned("calculateFaceBoundingBox")
  /\ Len(args.landmarks) = 3
  /\ RatioEq(result[1].minZ, Ratio(-1, 1))
  /\ RatioEq(result[1].maxZ, Ratio(-1, Grid))
  /\ RatioEq(result[1].width, Ratio(1, Grid))
  /\ RatioEq(result[1].height, Ratio(0, 1))

\* a and b are the same number
SameNumber(a, b) == a.tag = b.tag /\ (a.tag = "num" => RatioEq(a, b))

\* every landmark of the sequence is the same point
AllSamePoint(lms) ==
  \A i, j \in 1..Len(lms) :
    /\ RatioEq(lms[i].x, lms[j].x)
    /\ RatioEq(lms[i].y, lms[j].y)
    /\ RatioEq(lms[i].z, lms[j].z)

\* every landmark of the sequence has the same x and the same y
AllSameXY(lms) ==
  \A i, j \in 1..Len(lms) :
    RatioEq(lms[i].x, lms[j].x) /\ RatioEq(lms[i].y, lms[j].y)

\* targetSize / max(width, height) of the bounding box
ScaledToBox(lms, targetSize) ==
  LET bbox == calculateFaceBoundingBox(lms)
  IN  ExtOver(TargetSizeOrDefault(targetSize),
              RatioMax(bbox.width, bbox.height))

\* C23: calculateOptimalFaceScale on a non-empty sequence whose landmarks
\* all have the same x and the same y (so of landmarks that are all the
\* same point) returns exactly targetSize; on every other non-empty
\* sequence it returns targetSize / max(width, height) of the bounding box,
\* a finite number.
C23_ScaleFallback ==
  (Returned("calculateOptimalFaceScale") /\ Len(args.landmarks) > 0)
    => /\ result[1].tag = "num"
       /\ IF AllSameXY(args.landmarks)
          THEN result[1] = TargetSizeOrDefault(args.targetSize)
          ELSE SameNumber(result[1],
                          ScaledToBox(args.landmarks, args.targetSize))

C23_Witness ==
  /\ Returned("calculateOptimalFaceScale")
  /\ Len(args.landmarks) = 2
  /\ AllSameXY(args.landmarks)
  /\ ~AllSamePoint(args.landmarks)
  /\ args.targetSize = Ratio(3, 1)
  /\ result[1] = Ratio(3, 1)

\* C23 as stated: targetSize when all landmarks are the same point, and
\* otherwise targetSize / max(width, height).
C23_ScaleFallbackAsStated ==
  (Returned("calculateOptimalFaceScale") /\ Len(args.landmarks) > 0)
    => IF AllSamePoint(args.landmarks)
       THEN result[1] = TargetSizeOrDefault(args.targetSize)
       ELSE SameNumber(result[1],
                       ScaledToBox(args.landmarks, args.targetSize))

\* C30: for every output pixel (x, y) with 0 <= x < W and 0 <= y < H and
\* every size of the category mask, the sampled column is below maskW and
\* the sampled row below maskH, so that maskIdx is the index of the cell of
\* that row and column and is below maskW * maskH.
C30_HairMaskSampling ==
  Returned("segmentHair")
    => /\ result[1].maskX < args.maskW
       /\ result[1].maskY < args.maskH
       /\ result[1].maskIdx = result[1].maskY * args.maskW + result[1].maskX
       /\ result[1].maskIdx < args.maskW * args.maskH

(***************************************************************************)
(* Claims about the 2D compositor (SpecCanvas)                             *)
(***************************************************************************)
\* the canvas after one draw with props p, its images loaded
SingleDraw(p) ==
  LET W == p.photo.naturalWidth
      H == p.photo.naturalHeight
  IN  [width |-> W, height |-> H,
       painted |->
         << <<"drawImage", p.photo.src>>,
            ClipFill(buildMaskPath(p.landmarks, W, H),
                     IF p.textureBase64 # Null
                     THEN <<"pattern", p.textureBase64>>
                     ELSE <<"color", p.solidColor>>),
            drawEdge(p.landmarks, W, H) >>]

\* C17: when draw has been called again with unchanged photo, landmarks,
\* texture and colour, the canvas has, once all image loads have completed,
\* the content a single draw leaves: fills and edge strokes do not
\* accumulate.
C17_IdempotentRerender ==
  (/\ Len(draws) >= 2
   /\ \A i \in 1..Len(draws) :
        draws[i].pc = "done" /\ draws[i].props = draws[1].props)
    => canvas = SingleDraw(draws[1].props)

(***************************************************************************)
(* Claims about the hooks (SpecHooks)                                      *)
(***************************************************************************)
\* the material id and its maps are no longer held
Disposed(g, id) ==
  /\ \A m \in g.materials : m.id # id
  /\ \A q \in g.maps : q[1] = id => q[2] \notin g.textures

\* the undisposed materials created by a hook
Owned(g, owner) == {m \in g.materials : m.owner = owner}

\* C18: whenever useTextureGeneration or useMaterial replaces its current
\* material by a newly produced one, the previous material and its textures
\* are disposed before or at the replacement, and each hook owns at most one
\* undisposed material at any time.
C18_GpuRelease ==
  [][/\ (/\ hook.state.material # 0
         /\ hook'.state.material # 0
         /\ hook'.state.material # hook.state.material)
          => Disposed(gpu', hook.state.material)
     /\ (/\ mat.material # 0
         /\ mat'.material # 0
         /\ mat'.material # mat.material)
          => Disposed(gpu', mat.material)
     /\ \A owner \in {"useTextureGeneration", "useMaterial"} :
          Cardinality(Owned(gpu', owner)) <= 1]_vars

\* C19: when generateTextures is called, by an enabled hook that is not
\* generating, with a prompt that fails validatePrompt, the hook's error is
\* the validator's message, no call of the generator is pending, and the
\* hook's progress, material, textures and isGenerating, and the generator's
\* cache and isGenerating, are as before the call.
C19_MalformedPrompt ==
  [][(/\ calls' = calls + 1
      /\ event'.op = "generateTextures"
      /\ hook.enabled
      /\ ~hook.state.isGenerating
      /\ ~hook.view.isGenerating
      /\ ~validatePrompt(event'.value).valid)
       => /\ hook'.state.error = validatePrompt(event'.value).error
          /\ hook'.calls = hook.calls
          /\ hook'.state.progress = hook.state.progress
          /\ hook'.state.material = hook.state.material
          /\ hook'.state.textures = hook.state.textures
          /\ hook'.state.isGenerating = hook.state.isGenerating
          /\ cache' = cache
          /\ isGenerating' = isGenerating]_vars

\* C28: when draw has been called twice with different props and the image
\* loads of both calls have completed, in whatever order, the canvas holds
\* the composite of the later call's props: no load callback of the earlier
\* call has painted over it.
C28_LatestRenderWins ==
  (/\ Len(draws) = 2
   /\ draws[1].props # draws[2].props
   /\ draws[1].pc = "done"
   /\ draws[2].pc = "done")
    => canvas = SingleDraw(draws[2].props)

(***************************************************************************)
(* Further claims about the generator (Spec, FairSpec)                     *)
(***************************************************************************)
\* the callers whose request has a remote call outstanding: a fetch of
\* callAIModel or of streamAIModel, or the response body that streamAIModel
\* reads
InFlight ==
  {p \in Callers : pc[p] \in {"fetching", "sfetching", "sreading", "syielded"}}

\* C24: at most one remote request started by generate or generateStreaming
\* is outstanding, and isGeneratingNow() is true while one is.
C24_OneInFlight ==
  /\ Cardinality(InFlight) <= 1
  /\ Cardinality(InFlight) = 1 => isGenerating

C24_Witness ==
  /\ event.op = "stream"
  /\ event.result = "busy"
  /\ \E q \in Callers : q # event.caller /\ pc[q] = "fetching" /\ attempt[q] = 1
  /\ Cardinality(InFlight) = 1
  /\ isGenerating

\* the step settles an accepted generate: its fetch succeeds, or fails with
\* no attempt left
GenerateSettles ==
  \/ event'.op = "fetchOk"
  \/ event'.op = "fetchFail" /\ event'.result = "rejected"

\* C25: when an accepted generate settles, by a response or by a failure
\* of its last attempt, the flag is false afterwards and a generate issued
\* next is not rejected by the guard; a generate that finds the flag false
\* is never rejected; and a request that the guard rejects leaves the flag
\* true and the outstanding request where it is.
C25_GuardRelease ==
  [][/\ GenerateSettles
          => /\ ~isGenerating'
             /\ \A r \in GenRequests :
                  GenerateEntry(cache', isGenerating', generateKey(r),
                                now').path # "busy"
     /\ (event'.op = "generate" /\ ~isGenerating)
          => event'.result \in {"start", "cached"}
     /\ event'.result = "busy"
          => isGenerating /\ isGenerating' /\ pc' = pc /\ creq' = creq]_vars

C25_Witness ==
  /\ event.op = "fetchFail"
  /\ event.result = "rejected"
  /\ event.value = ErrFailed
  /\ ~isGenerating
  /\ calls >= 2
  /\ \A p \in Callers : pc[p] = "idle"
\* the keys under which m2 holds an entry that m1 does not hold
Gained(m1, m2) ==
  {k \in MapKeys(m2) : ~MapHas(m1, k) \/ MapGet(m2, k) # MapGet(m1, k)}

\* every entry the step puts in the cache is the response of a generate
\* that completes in this step, under the key of its request
GainsOnlyOnSuccess ==
  /\ \A k \in Gained(cache, cache') :
       /\ event'.op = "fetchOk"
       /\ k = event'.key
       /\ k = generateKey(creq[event'.caller])
       /\ MapGet(cache', k).data = event'.value
  /\ event'.op = "fetchOk" => event'.key \in Gained(cache, cache')

\* C29: the cache gains an entry only in the step in which a generate
\* completes with a response, and then that response under the key of its
\* request; the streaming path leaves the cache unchanged; every other step
\* leaves it unchanged or is the lookup of a generate that removes the
\* expired entry of its own key.
C29_CacheWrites ==
  [][/\ GainsOnlyOnSuccess
     /\ event'.op \notin {"fetchOk", "generate"} => cache' = cache
     /\ (event'.op = "generate" /\ cache' # cache)
          => /\ StaleEntry(cache, event'.key, now)
             /\ cache' = MapDelete(cache, event'.key)]_vars

C29_Witness ==
  /\ event.op = "fetchOk"
  /\ Len(cache) = 2
  /\ MapGet(cache, event.key).data = event.value
  /\ MapGet(cache, event.key).timestamp = now
  /\ now > 0

\* C29 as stated: the cache gains an entry only when a generate completes
\* with a response; a failed request, a request rejected by the guard and
\* the streaming path leave the cache unchanged.
C29_CacheWritesAsStated ==
  [][/\ GainsOnlyOnSuccess
     /\ (\/ event'.op = "fetchFail"
         \/ event'.result = "busy"
         \/ event'.op \notin {"fetchOk", "generate"})
          => cache' = cache]_vars

\* no request is outstanding: no caller awaits a fetch, a backoff timer, a
\* read of the stream or the consumer's next()
NothingOutstanding ==
  \A p \in Callers : pc[p] \in {"idle", "abandoned"}

\* C27: once the consumer of a stream has stopped consuming it, by
\* exhausting it, by a stream error or by abandoning the iteration after
\* some chunks, the flag becomes false: it does not stay true forever with
\* no request outstanding.
C27_StreamingRelease == (isGenerating /\ NothingOutstanding) ~> ~isGenerating

(***************************************************************************)
(* Further claims about the hooks (SpecHooks)                              *)
(***************************************************************************)
\* the calls of the hook whose request the generator has in flight
HookInFlight ==
  {p \in Callers : hook.calls[p].pc \in {"fetching", "streaming"}}

\* C26: while the generator has a request in flight that was started
\* through useTextureGeneration, the hook's isGenerating is true: no step
\* of a generateTextures call, in particular of a second one made before
\* the hook renders again, leaves it false while a request is outstanding.
C26_HookAgreement ==
  [][(/\ event'.op \in {"generateTextures", "generateTexturesDone"}
      /\ HookInFlight' # {})
       => hook'.state.isGenerating]_vars

====
